---- MODULE Spec2Model ----
(***************************************************************************)
(* THOTH translator: the column classification and batch translation       *)
(* orchestrator (translator/processor.py, CSVProcessor) as a state machine.*)
(*                                                                         *)
(* Python values are represented as follows.                               *)
(*   - a cell, after astype(str), is a string; row indices are 0-based as  *)
(*     in the code, so row r of a column is values[r + 1] here;            *)
(*   - None is the string NoneStr; truthiness of an Optional[str] is       *)
(*     Truthy;                                                             *)
(*   - a language code is a string; slicing and splitting work on its      *)
(*     characters (Chars / Join);                                          *)
(*   - a warning f"Row {r+1}, column '{c}': {e}" is the record             *)
(*     [row |-> r + 1, column |-> c, error |-> e];                         *)
(*   - wall-clock fields (processing_time) are left out.                   *)
(***************************************************************************)
EXTENDS Integers, Sequences, FiniteSets, TLC

VARIABLES
    config,              \* self._config: batch_size, column_defaults, column_overrides
    df,                  \* self._df: [loaded, columns], columns a sequence of [name, values]
    input_path,          \* self._input_path
    columns,             \* self._columns: sequence of ColumnInfo
    translated_columns,  \* self._translated_columns: column name -> list of strings
    target_language,     \* self._target_language
    progress,            \* the ProgressTracker handed to the running phase
    pc,                  \* position of the caller inside analyze_columns / translate
    run,                 \* local variables of the translate call in progress
    result,              \* the ProcessingResult returned by the last translate call
    calls,               \* history: the translate_batch invocations of the last accepted run
    requested,           \* history: per column, the detection and the last override handed in
    saved,               \* what the last save() call wrote, or the error it raised
    cli,                 \* CLI._translate_file: its position, self._cancelled, its exit code
    batch,               \* the batch-of-files loop of thoth.main
    setup                \* translator/setup.py: the model file on disk and the download calls

vars == <<config, df, input_path, columns, translated_columns, target_language,
          progress, pc, run, result, calls, requested, saved, cli, batch, setup>>

-----------------------------------------------------------------------------
(* Bounds of the model. *)

\* largest table explored by Spec, in cells (rows x columns)
MaxCells == 5

\* largest table explored by FaultSpec, in cells
FaultCells == 4

\* most files a batch-of-files run discovers
MaxFiles == 3

\* rows of the two-column table of WarnSpec, and its batch size
WarnRows == 6

WarnBatchSize == 3

\* rows of the two-column tables of RunSpec
RunRows == 2

\* largest table explored by RunLiveSpec, in cells
LiveCells == 2

-----------------------------------------------------------------------------
(* Python helpers. *)

NoneStr == "<None>"

\* bool(s) for an Optional[str]
Truthy(s) == s # NoneStr /\ s # ""

\* a or b on Optional[str]
PyOr(a, b) == IF Truthy(a) THEN a ELSE b

Min(a, b) == IF a < b THEN a ELSE b

\* lst[lo:hi] with 0-based, in-range slice bounds
Slice(lst, lo, hi) == SubSeq(lst, lo + 1, Min(hi, Len(lst)))

\* str.strip() on the cell values of the model: only the whitespace-only cell changes
Strip(v) == IF v = " " THEN "" ELSE v

RECURSIVE SeqSum(_)
SeqSum(s) == IF s = <<>> THEN 0 ELSE Head(s) + SeqSum(Tail(s))

RECURSIVE Flatten(_)
Flatten(ss) == IF ss = <<>> THEN <<>> ELSE Head(ss) \o Flatten(Tail(ss))

\* the positions (1-based) of a sequence of booleans that hold TRUE, in order
SelectPos(keep) ==
    LET F[i \in 0..Len(keep)] ==
            IF i = 0 THEN <<>>
            ELSE IF keep[i] THEN Append(F[i - 1], i) ELSE F[i - 1]
    IN  F[Len(keep)]

-----------------------------------------------------------------------------
(* Language codes (LanguageMapper).  The registry table itself lives in     *)
(* translator/languages.py; the entries used here are the ones the          *)
(* repository's own self-test and validation table state.                   *)

\* the characters of the language codes the model uses
Chars(code) ==
    CASE code = "rus_Cyrl" -> <<"r", "u", "s", "_", "C", "y", "r", "l">>
      [] code = "fra_Latn" -> <<"f", "r", "a", "_", "L", "a", "t", "n">>
      [] code = "eng_Latn" -> <<"e", "n", "g", "_", "L", "a", "t", "n">>
      [] code = "ace_Arab" -> <<"a", "c", "e", "_", "A", "r", "a", "b">>
      [] code = "ru" -> <<"r", "u">>
      [] code = "fr" -> <<"f", "r">>
      [] code = "en" -> <<"e", "n">>
      [] code = "fra" -> <<"f", "r", "a">>
      [] code = "Fra" -> <<"F", "r", "a">>
      [] OTHER -> <<>>

RECURSIVE Join(_)
Join(cs) == IF cs = <<>> THEN "" ELSE Head(cs) \o Join(Tail(cs))

\* code[:n]
Prefix(code, n) == Join(Slice(Chars(code), 0, n))

\* str.lower() on one character of a language code
Lower(ch) ==
    CASE ch = "A" -> "a"
      [] ch = "C" -> "c"
      [] ch = "F" -> "f"
      [] ch = "L" -> "l"
      [] OTHER -> ch

\* code.split("_")[0]: the characters before the first underscore
RECURSIVE SplitHead(_)
SplitHead(cs) ==
    IF cs = <<>> \/ Head(cs) = "_" THEN <<>> ELSE <<Head(cs)>> \o SplitHead(Tail(cs))

\* LanguageMapper.to_argos: the ISO 639-1 code of an NLLB code, None when Argos has none
ToArgos(code) ==
    CASE code = "rus_Cyrl" -> "ru"
      [] code = "fra_Latn" -> "fr"
      [] code = "eng_Latn" -> "en"
      [] OTHER -> NoneStr

ColumnTypes == {"foreign_text", "english", "numeric", "date", "empty", "mixed"}

-----------------------------------------------------------------------------
(* Cells and tables. *)

\* the test the code applies to a cell: v and str(v).strip() and v != "nan"
IsTranslatableNoNan(v) == v # "" /\ Strip(v) # ""

IsTranslatable(v) == v # "" /\ Strip(v) # "" /\ v # "nan"

\* the three non-informative cells, attached to rows in rotation, and one text per row
BlankAt(r) == <<"", " ", "nan">>[(r % 3) + 1]

TextAt(name, r) == name \o ToString(r)

ColumnNames == <<"text", "notes">>

\* a column of n rows whose rows in filled hold text and whose other rows are blank
MakeColumn(name, n, filled) ==
    [name |-> name,
     values |-> [r1 \in 1..n |-> IF (r1 - 1) \in filled THEN TextAt(name, r1 - 1)
                                 ELSE BlankAt(r1 - 1)]]

\* the tables of k columns and n rows
TablesOf(k, n) ==
    { [c \in 1..k |-> MakeColumn(ColumnNames[c], n, f[c])] :
        f \in [1..k -> SUBSET (0..(n - 1))] }

\* every table of at most m cells, with one or two columns and at least one row
Tables(m) ==
    UNION { TablesOf(p[1], p[2]) :
              p \in { q \in (1..Len(ColumnNames)) \X (1..m) : q[1] * q[2] <= m } }

NoDf == [loaded |-> FALSE, columns |-> <<>>]

\* self._df[name].astype(str).tolist()
ColumnValues(d, name) ==
    LET i == CHOOSE j \in 1..Len(d.columns) : d.columns[j].name = name
    IN  d.columns[i].values

\* len(self._df)
RowCount(d) == IF d.columns = <<>> THEN 0 ELSE Len(d.columns[1].values)

\* [v for v in values if v and str(v).strip() and v != "nan"]
NonEmpty(values) ==
    LET pos == SelectPos([i \in 1..Len(values) |-> IsTranslatable(values[i])])
    IN  [i \in 1..Len(pos) |-> values[pos[i]]]

\* indices_to_translate: the 0-based rows of the translatable cells
UnitIndices(values) ==
    LET pos == SelectPos([i \in 1..Len(values) |-> IsTranslatable(values[i])])
    IN  [i \in 1..Len(pos) |-> pos[i] - 1]

-----------------------------------------------------------------------------
(* Finite maps (Python dicts). *)

EmptyMap == <<>>

MapPut(m, k, v) == [x \in (DOMAIN m) \cup {k} |-> IF x = k THEN v ELSE m[x]]

\* dict.get(k): None when the key is absent
MapGet(m, k) == IF k \in DOMAIN m THEN m[k] ELSE NoneStr

-----------------------------------------------------------------------------
(* ProgressTracker (translator/progress.py): total, completed, message,     *)
(* cancellation flag, completion flag.                                      *)

NoTracker ==
    [present |-> FALSE, total |-> 0, completed |-> 0, message |-> "",
     cancelled |-> FALSE, complete |-> FALSE]

\* ProgressTracker()
FreshTracker == [NoTracker EXCEPT !.present = TRUE]

\* start(total, message): resets the counters
PStart(p, total, message) ==
    [p EXCEPT !.total = total, !.completed = 0, !.message = message, !.complete = FALSE]

\* update(delta, message)
PUpdate(p, delta, message) ==
    [p EXCEPT !.completed = p.completed + delta, !.message = message]

\* complete(message)
PComplete(p, message) == [p EXCEPT !.complete = TRUE, !.message = message]

\* set_message(message)
PSetMessage(p, message) == [p EXCEPT !.message = message]

\* cancel(): sets the flag only
PCancel(p) == [p EXCEPT !.cancelled = TRUE]

\* the guard written "progress and progress.is_cancelled()"
IsCancelled(p) == p.present /\ p.cancelled

-----------------------------------------------------------------------------
(* Configuration and column states. *)

\* Config().column_defaults
DefaultColumnDefaults ==
    [skip_empty |-> TRUE, skip_numeric |-> TRUE, skip_dates |-> TRUE,
     skip_english |-> TRUE, auto_select_foreign_text |-> TRUE]

AllColumnDefaults ==
    [skip_empty : BOOLEAN, skip_numeric : BOOLEAN, skip_dates : BOOLEAN,
     skip_english : BOOLEAN, auto_select_foreign_text : BOOLEAN]

MakeConfig(batch_size, defaults, overrides) ==
    [batch_size |-> batch_size, column_defaults |-> defaults, column_overrides |-> overrides]

EffectiveLanguagePreferDetected(col) == PyOr(col.detected_language, col.override_language)

\* ColumnInfo.effective_language: self.override_language or self.detected_language
EffectiveLanguage(col) == PyOr(col.override_language, col.detected_language)

ShouldAutoSelectUnskipped(column_type, defaults) ==
    IF column_type = "empty" /\ defaults.skip_empty THEN FALSE
    ELSE IF column_type = "numeric" /\ defaults.skip_numeric THEN FALSE
    ELSE IF column_type = "date" /\ defaults.skip_dates THEN FALSE
    ELSE IF column_type = "english" /\ defaults.skip_english THEN FALSE
    ELSE IF column_type = "foreign_text" /\ defaults.auto_select_foreign_text THEN TRUE
    ELSE column_type # "foreign_text"

\* CSVProcessor._should_auto_select
ShouldAutoSelect(column_type, defaults) ==
    IF column_type = "empty" /\ defaults.skip_empty THEN FALSE
    ELSE IF column_type = "numeric" /\ defaults.skip_numeric THEN FALSE
    ELSE IF column_type = "date" /\ defaults.skip_dates THEN FALSE
    ELSE IF column_type = "english" /\ defaults.skip_english THEN FALSE
    ELSE IF column_type = "foreign_text" /\ defaults.auto_select_foreign_text THEN TRUE
    ELSE IF column_type = "mixed" THEN TRUE
    ELSE FALSE

IsSelected(col) == col.selected

\* CSVProcessor.get_selected_columns, as positions in self._columns
GetSelectedColumns(cols) == SelectPos([i \in 1..Len(cols) |-> IsSelected(cols[i])])

\* the ColumnDetectionResult of LanguageDetector.analyze_column
Detection(language, name, column_type, confidence) ==
    [dominant_language |-> language,
     argos_code |-> IF ToArgos(language) = NoneStr THEN "" ELSE ToArgos(language),
     language_name |-> name,
     column_type |-> column_type,
     average_confidence |-> confidence]

LanguageName(code) ==
    CASE code = "rus_Cyrl" -> "Russian"
      [] code = "fra_Latn" -> "French"
      [] code = "eng_Latn" -> "English"
      [] code = "ace_Arab" -> "Acehnese"
      [] OTHER -> "Unknown"

\* one classification per column type, in Russian
TypeDetections == { Detection("rus_Cyrl", "Russian", t, 95) : t \in ColumnTypes }

\* the classification of a column by its content alone: blank columns are empty,
\* the others Russian text
ContentDetection(values) ==
    IF NonEmpty(values) = <<>>
    THEN Detection("eng_Latn", "English", "empty", 0)
    ELSE Detection("rus_Cyrl", "Russian", "foreign_text", 95)

-----------------------------------------------------------------------------
(* The state after CSVProcessor.__init__. *)

NoResult ==
    [success |-> FALSE, output_path |-> NoneStr, rows_processed |-> 0,
     columns_translated |-> 0, cells_translated |-> 0, error |-> "<no call>",
     warnings |-> <<>>]

NoRun ==
    [engine |-> NoneStr, target_lang |-> NoneStr, selected |-> <<>>, ci |-> 0,
     batch_start |-> 0, translated_values |-> <<>>, cells_translated |-> 0,
     warnings |-> <<>>]

\* no save() call has been made
NoSave == [written |-> FALSE, path |-> NoneStr, columns |-> <<>>, error |-> NoneStr]

\* no CLI run and no batch loop is under way: the processor is driven directly
NoCli == [pc |-> "none", cancelled |-> FALSE, analyze |-> FALSE, code |-> -1]

NoBatch == [files |-> <<>>, attempts |-> <<>>, success_count |-> 0, fail_count |-> 0,
            pc |-> "none", code |-> -1]

\* no model file on disk, no download under way, no download_lid_model call made
NoSetup == [lid |-> [exists |-> FALSE, chunks |-> 0], pc |-> "idle", lid_calls |-> <<>>,
            status |-> [checked |-> FALSE, lid |-> FALSE]]

InitWith(cfg) ==
    /\ config = cfg
    /\ df = NoDf
    /\ input_path = NoneStr
    /\ columns = <<>>
    /\ translated_columns = EmptyMap
    /\ target_language = "eng_Latn"
    /\ progress = NoTracker
    /\ pc = "idle"
    /\ run = NoRun
    /\ result = NoResult
    /\ calls = <<>>
    /\ requested = EmptyMap
    /\ saved = NoSave
    /\ cli = NoCli
    /\ batch = NoBatch
    /\ setup = NoSetup

\* no analyze_columns or translate call is in progress
Quiescent == pc \in {"idle", "done"}

\* what the caller holds from its previous call (the returned result, the tracker,
\* the history of invocations, the outcome of save) is dropped when it makes the
\* next call
Forget ==
    /\ progress' = NoTracker
    /\ result' = NoResult
    /\ calls' = <<>>
    /\ saved' = NoSave

\* the processor is used as a library: no CLI run or batch loop moves with it
Lib == UNCHANGED <<cli, batch, setup>>

-----------------------------------------------------------------------------
(* load_file, reset, analyze_columns, selection and overrides. *)

\* load_file(path) of a readable file holding table t
LoadFile(path, t) ==
    /\ Quiescent
    /\ df' = [loaded |-> TRUE, columns |-> t]
    /\ input_path' = path
    /\ columns' = <<>>
    /\ translated_columns' = EmptyMap
    /\ requested' = EmptyMap
    /\ pc' = "idle"
    /\ UNCHANGED <<config, target_language, run>>
    /\ Forget

\* reset()
Reset ==
    /\ Quiescent
    /\ df.loaded
    /\ df' = NoDf
    /\ input_path' = NoneStr
    /\ columns' = <<>>
    /\ translated_columns' = EmptyMap
    /\ requested' = EmptyMap
    /\ pc' = "idle"
    /\ UNCHANGED <<config, target_language, run>>
    /\ Forget

\* analyze_columns(progress), up to the loop
AnalyzeBegin(tracker) ==
    /\ Quiescent
    /\ df.loaded
    /\ columns' = <<>>
    /\ requested' = EmptyMap
    /\ progress' = IF tracker.present
                   THEN PStart(tracker, Len(df.columns), "Analyzing columns...")
                   ELSE tracker
    /\ pc' = "analyzing"
    /\ UNCHANGED <<config, df, input_path, translated_columns, target_language, run>>
    /\ result' = NoResult
    /\ calls' = <<>>
    /\ saved' = NoSave

\* one iteration of the loop of analyze_columns; detect(values) is what
\* LanguageDetector.analyze_column may return for the column
AnalyzeColumn(detection) ==
    /\ pc = "analyzing"
    /\ Len(columns) < Len(df.columns)
    /\ ~IsCancelled(progress)
    /\ LET idx == Len(columns)
           col_name == df.columns[idx + 1].name
           values == df.columns[idx + 1].values
           non_empty == NonEmpty(values)
           override_lang == MapGet(config.column_overrides, col_name)
           col_info ==
               [name |-> col_name,
                index |-> idx,
                detected_language |-> detection.dominant_language,
                argos_code |-> detection.argos_code,
                language_name |-> detection.language_name,
                column_type |-> detection.column_type,
                selected |-> ShouldAutoSelect(detection.column_type, config.column_defaults),
                confidence |-> detection.average_confidence,
                sample_values |-> Slice(non_empty, 0, 5),
                override_language |-> override_lang]
       IN  /\ columns' = Append(columns, col_info)
           /\ requested' = MapPut(requested, col_name,
                                  [detected |-> detection.dominant_language,
                                   override |-> override_lang])
           /\ progress' = IF progress.present
                          THEN PUpdate(progress, 1, "Analyzed column: " \o col_name)
                          ELSE progress
    /\ UNCHANGED <<config, df, input_path, translated_columns, target_language,
                   pc, run, result, calls>>
    /\ UNCHANGED saved

AnalyzeFinishAnytime ==
    /\ pc = "analyzing"
    /\ progress' = IF progress.present
                   THEN PComplete(progress,
                                  "Analyzed " \o ToString(Len(columns)) \o " columns")
                   ELSE progress
    /\ pc' = "idle"
    /\ UNCHANGED <<config, df, input_path, columns, translated_columns,
                   target_language, run, result, calls, requested, saved>>

\* the end of analyze_columns: the loop ran out or saw the cancellation
AnalyzeFinish ==
    /\ pc = "analyzing"
    /\ Len(columns) = Len(df.columns) \/ IsCancelled(progress)
    /\ progress' = IF progress.present
                   THEN PComplete(progress,
                                  "Analyzed " \o ToString(Len(columns)) \o " columns")
                   ELSE progress
    /\ pc' = "idle"
    /\ UNCHANGED <<config, df, input_path, columns, translated_columns,
                   target_language, run, result, calls, requested>>
    /\ UNCHANGED saved

SetColumnSelectionAdding(names) ==
    /\ Quiescent
    /\ columns' = [i \in 1..Len(columns) |->
                     [columns[i] EXCEPT
                        !.selected = columns[i].selected \/ (columns[i].name \in names)]]
    /\ pc' = "idle"
    /\ UNCHANGED <<config, df, input_path, translated_columns, target_language,
                   run, requested>>
    /\ Forget

\* set_column_selection(names)
SetColumnSelection(names) ==
    /\ Quiescent
    /\ columns' = [i \in 1..Len(columns) |->
                     [columns[i] EXCEPT !.selected = (columns[i].name \in names)]]
    /\ pc' = "idle"
    /\ UNCHANGED <<config, df, input_path, translated_columns, target_language,
                   run, requested>>
    /\ Forget

\* set_column_language(column_name, language_code): the first column of that name
SetColumnLanguage(column_name, language_code) ==
    /\ Quiescent
    /\ LET hits == { i \in 1..Len(columns) : columns[i].name = column_name }
       IN  /\ columns' = IF hits = {} THEN columns
                         ELSE LET first == CHOOSE i \in hits : \A j \in hits : i <= j
                              IN  [columns EXCEPT ![first].override_language = language_code]
           /\ requested' = IF hits = {} THEN requested
                           ELSE [requested EXCEPT ![column_name].override = language_code]
    /\ pc' = "idle"
    /\ UNCHANGED <<config, df, input_path, translated_columns, target_language, run>>
    /\ Forget

\* --force-lang: col.override_language = args.force_lang for every selected column
ForceLanguage(force_lang) ==
    /\ Quiescent
    /\ Truthy(force_lang)
    /\ columns' = [i \in 1..Len(columns) |->
                     IF columns[i].selected
                     THEN [columns[i] EXCEPT !.override_language = force_lang]
                     ELSE columns[i]]
    /\ requested' = [n \in DOMAIN requested |->
                       IF \E i \in 1..Len(columns) : columns[i].name = n /\ columns[i].selected
                       THEN [requested[n] EXCEPT !.override = force_lang]
                       ELSE requested[n]]
    /\ pc' = "idle"
    /\ UNCHANGED <<config, df, input_path, translated_columns, target_language, run>>
    /\ Forget

\* ProgressTracker.cancel(), from the interrupt handler, while a phase runs
Cancel ==
    /\ ~Quiescent
    /\ progress.present
    /\ ~progress.cancelled
    /\ progress' = PCancel(progress)
    /\ UNCHANGED <<config, df, input_path, columns, translated_columns,
                   target_language, pc, run, result, calls, requested>>
    /\ UNCHANGED saved

-----------------------------------------------------------------------------
(* The translation capability (engine.translate_batch): one outcome per     *)
(* text, aligned with the batch.                                            *)

OutcomeKinds == {"ok", "blank", "fail"}

\* the engine's translation of a text
TranslationOf(text) == "tr:" \o text

\* the TranslationResult of one text: a translation, a successful but empty
\* translation, or a failure with its error description
MakeOutcome(kind, text) ==
    CASE kind = "ok" ->
           [success |-> TRUE, translated_text |-> TranslationOf(text), error |-> NoneStr]
      [] kind = "blank" ->
           [success |-> TRUE, translated_text |-> "", error |-> NoneStr]
      [] OTHER ->
           [success |-> FALSE, translated_text |-> NoneStr, error |-> "engine error"]

-----------------------------------------------------------------------------
(* translate(engine, progress, target_language). *)

NoneSelectedNoColumns(cols) == cols = <<>>

\* "if not selected"
NoneSelected(cols) == GetSelectedColumns(cols) = <<>>

\* target_lang: the target code in the engine's code space
TargetLang(engine, target) ==
    IF engine = "argos" THEN PyOr(ToArgos(target), "en") ELSE target

\* source_lang of a column: its effective language in the engine's code space
SourceLang(col, engine) ==
    LET source_lang == EffectiveLanguage(col)
    IN  IF engine = "argos"
        THEN PyOr(PyOr(col.argos_code, ToArgos(source_lang)), Prefix(source_lang, 2))
        ELSE source_lang

\* the ColumnInfo the column loop is at
CurrentColumn == columns[run.selected[run.ci]]

\* texts_to_translate and indices_to_translate of the column the loop is at
CurrentTexts == NonEmpty(ColumnValues(df, CurrentColumn.name))

CurrentIndicesFromZero == [i \in 1..Len(CurrentTexts) |-> i - 1]

CurrentIndices == UnitIndices(ColumnValues(df, CurrentColumn.name))

BatchEndWhole(batch_start, batch_size, n) == n

\* batch_end = min(batch_start + batch_size, len(texts_to_translate))
BatchEnd(batch_start, batch_size, n) == Min(batch_start + batch_size, n)

\* the checkpoint before each column: "if progress and progress.is_cancelled(): break"
ColumnCheckpoint(p) == IsCancelled(p)

BatchCheckpointNever(p) == FALSE

\* the checkpoint before each batch: "if progress and progress.is_cancelled(): break"
BatchCheckpoint(p) == IsCancelled(p)

\* the translate call that returns at once: no file loaded, or no column selected
TranslateRejected(engine, tracker, target) ==
    /\ Quiescent
    /\ ~df.loaded \/ NoneSelected(columns)
    /\ result' = [NoResult EXCEPT
                    !.error = IF ~df.loaded THEN "No file loaded"
                              ELSE "No columns selected for translation"]
    /\ progress' = tracker
    /\ pc' = "done"
    /\ UNCHANGED <<config, df, input_path, columns, translated_columns,
                   target_language, run, requested>>
    /\ calls' = <<>>
    /\ saved' = NoSave

\* translate up to the column loop
TranslateBegin(engine, tracker, target) ==
    /\ Quiescent
    /\ df.loaded
    /\ ~NoneSelected(columns)
    /\ LET selected == GetSelectedColumns(columns)
           total_cells ==
               SeqSum([k \in 1..Len(selected) |->
                         Len(NonEmpty(ColumnValues(df, columns[selected[k]].name)))])
       IN  /\ progress' = IF tracker.present
                          THEN PStart(tracker, total_cells, "Starting translation...")
                          ELSE tracker
           /\ run' = [engine |-> engine,
                      target_lang |-> TargetLang(engine, target),
                      selected |-> selected,
                      ci |-> 1,
                      batch_start |-> 0,
                      translated_values |-> <<>>,
                      cells_translated |-> 0,
                      warnings |-> <<>>]
    /\ target_language' = target
    /\ calls' = <<>>
    /\ pc' = "col"
    /\ UNCHANGED <<config, df, input_path, columns, translated_columns, requested>>
    /\ result' = NoResult
    /\ saved' = NoSave

\* the column loop ends: no column is left, or the checkpoint before the
\* column saw the cancellation
ColumnLoopExit ==
    /\ pc = "col"
    /\ run.ci > Len(run.selected) \/ ColumnCheckpoint(progress)
    /\ pc' = "finish"
    /\ UNCHANGED <<config, df, input_path, columns, translated_columns,
                   target_language, progress, run, result, calls, requested>>
    /\ UNCHANGED saved

\* the column loop enters a column: translated_values = [""] * len(values)
ColumnBegin ==
    /\ pc = "col"
    /\ run.ci <= Len(run.selected)
    /\ ~ColumnCheckpoint(progress)
    /\ run' = [run EXCEPT
                 !.translated_values =
                     [r \in 1..Len(ColumnValues(df, CurrentColumn.name)) |-> ""],
                 !.batch_start = 0]
    /\ pc' = "batch"
    /\ UNCHANGED <<config, df, input_path, columns, translated_columns,
                   target_language, progress, result, calls, requested>>
    /\ UNCHANGED saved

\* the batch loop passes its checkpoint and prepares the next batch
BatchCheck ==
    /\ pc = "batch"
    /\ run.batch_start < Len(CurrentTexts)
    /\ ~BatchCheckpoint(progress)
    /\ pc' = "call"
    /\ UNCHANGED <<config, df, input_path, columns, translated_columns,
                   target_language, progress, run, result, calls, requested>>
    /\ UNCHANGED saved

ColumnStoreUnlessCancelled ==
    /\ pc = "batch"
    /\ run.batch_start >= Len(CurrentTexts) \/ BatchCheckpoint(progress)
    /\ translated_columns' =
           IF IsCancelled(progress) THEN translated_columns
           ELSE MapPut(translated_columns, CurrentColumn.name, run.translated_values)
    /\ run' = [run EXCEPT !.ci = run.ci + 1]
    /\ pc' = "col"
    /\ UNCHANGED <<config, df, input_path, columns, target_language, progress,
                   result, calls, requested, saved>>

\* the batch loop ends, by exhaustion or by break, and the column is stored:
\* self._translated_columns[col.name] = translated_values
ColumnStore ==
    /\ pc = "batch"
    /\ run.batch_start >= Len(CurrentTexts) \/ BatchCheckpoint(progress)
    /\ translated_columns' =
           MapPut(translated_columns, CurrentColumn.name, run.translated_values)
    /\ run' = [run EXCEPT !.ci = run.ci + 1]
    /\ pc' = "col"
    /\ UNCHANGED <<config, df, input_path, columns, target_language, progress,
                   result, calls, requested>>
    /\ UNCHANGED saved

\* engine.translate_batch(batch_texts, batch_langs, target_lang) is invoked
Invoke ==
    /\ pc = "call"
    /\ LET batch_end == BatchEnd(run.batch_start, config.batch_size, Len(CurrentTexts))
           batch_texts == Slice(CurrentTexts, run.batch_start, batch_end)
           source_lang == SourceLang(CurrentColumn, run.engine)
       IN  calls' = Append(calls,
                 [column |-> CurrentColumn.name,
                  engine |-> run.engine,
                  batch_start |-> run.batch_start,
                  texts |-> batch_texts,
                  langs |-> [i \in 1..Len(batch_texts) |-> source_lang],
                  target |-> run.target_lang,
                  rows |-> Slice(CurrentIndices, run.batch_start, batch_end),
                  cancelled |-> IsCancelled(progress),
                  results |-> <<>>])
    /\ pc' = "flight"
    /\ UNCHANGED <<config, df, input_path, columns, translated_columns,
                   target_language, progress, run, result, requested>>
    /\ UNCHANGED saved

StoreOneCountAll(st, trans_result, orig_idx, text, col_name) ==
    IF trans_result.success
    THEN [st EXCEPT
            !.translated_values[orig_idx + 1] = trans_result.translated_text,
            !.cells_translated = st.cells_translated + 1]
    ELSE [st EXCEPT
            !.translated_values[orig_idx + 1] = text,
            !.warnings = Append(st.warnings,
                                [row |-> orig_idx + 1, column |-> col_name,
                                 error |-> trans_result.error])]

StoreOneBlankOnFailure(st, trans_result, orig_idx, text, col_name) ==
    IF trans_result.success /\ Truthy(trans_result.translated_text)
    THEN [st EXCEPT
            !.translated_values[orig_idx + 1] = trans_result.translated_text,
            !.cells_translated = st.cells_translated + 1]
    ELSE [st EXCEPT
            !.warnings =
                IF Truthy(trans_result.error)
                THEN Append(st.warnings,
                            [row |-> orig_idx + 1, column |-> col_name,
                             error |-> trans_result.error])
                ELSE st.warnings]

\* the body of the loop over result.results for one outcome, over
\* st = [translated_values, cells_translated, warnings]
StoreOne(st, trans_result, orig_idx, text, col_name) ==
    IF trans_result.success /\ Truthy(trans_result.translated_text)
    THEN [st EXCEPT
            !.translated_values[orig_idx + 1] = trans_result.translated_text,
            !.cells_translated = st.cells_translated + 1]
    ELSE [st EXCEPT
            !.translated_values[orig_idx + 1] = text,
            !.warnings =
                IF Truthy(trans_result.error)
                THEN Append(st.warnings,
                            [row |-> orig_idx + 1, column |-> col_name,
                             error |-> trans_result.error])
                ELSE st.warnings]

\* the loop "for i, trans_result in enumerate(result.results)", from entry i on
RECURSIVE StoreResults(_, _, _, _, _, _, _)
StoreResults(st, results, i, batch_indices, texts_to_translate, batch_start, col_name) ==
    IF i >= Len(results) THEN st
    ELSE StoreResults(StoreOne(st, results[i + 1], batch_indices[i + 1],
                               texts_to_translate[batch_start + i + 1], col_name),
                      results, i + 1, batch_indices, texts_to_translate, batch_start,
                      col_name)

ReturnAdvanceOne(kinds) ==
    /\ pc = "flight"
    /\ LET batch_end == BatchEnd(run.batch_start, config.batch_size, Len(CurrentTexts))
           batch_texts == Slice(CurrentTexts, run.batch_start, batch_end)
           batch_indices == Slice(CurrentIndices, run.batch_start, batch_end)
           results == [i \in 1..Len(batch_texts) |-> MakeOutcome(kinds[i], batch_texts[i])]
           st == StoreResults([translated_values |-> run.translated_values,
                               cells_translated |-> run.cells_translated,
                               warnings |-> run.warnings],
                              results, 0, batch_indices, CurrentTexts, run.batch_start,
                              CurrentColumn.name)
       IN  /\ Len(kinds) = Len(batch_texts)
           /\ run' = [run EXCEPT
                        !.translated_values = st.translated_values,
                        !.cells_translated = st.cells_translated,
                        !.warnings = st.warnings,
                        !.batch_start = run.batch_start + 1]
           /\ calls' = [calls EXCEPT ![Len(calls)].results = results]
           /\ progress' = IF progress.present
                          THEN PUpdate(progress, Len(batch_texts),
                                       "Translating " \o CurrentColumn.name \o "...")
                          ELSE progress
    /\ pc' = "batch"
    /\ UNCHANGED <<config, df, input_path, columns, translated_columns,
                   target_language, result, requested, saved>>

\* translate_batch returns one outcome per text; the results are stored and the
\* tracker advanced by the batch's size
Return(kinds) ==
    /\ pc = "flight"
    /\ LET batch_end == BatchEnd(run.batch_start, config.batch_size, Len(CurrentTexts))
           batch_texts == Slice(CurrentTexts, run.batch_start, batch_end)
           batch_indices == Slice(CurrentIndices, run.batch_start, batch_end)
           results == [i \in 1..Len(batch_texts) |-> MakeOutcome(kinds[i], batch_texts[i])]
           st == StoreResults([translated_values |-> run.translated_values,
                               cells_translated |-> run.cells_translated,
                               warnings |-> run.warnings],
                              results, 0, batch_indices, CurrentTexts, run.batch_start,
                              CurrentColumn.name)
       IN  /\ Len(kinds) = Len(batch_texts)
           /\ run' = [run EXCEPT
                        !.translated_values = st.translated_values,
                        !.cells_translated = st.cells_translated,
                        !.warnings = st.warnings,
                        !.batch_start = run.batch_start + config.batch_size]
           /\ calls' = [calls EXCEPT ![Len(calls)].results = results]
           /\ progress' = IF progress.present
                          THEN PUpdate(progress, Len(batch_texts),
                                       "Translating " \o CurrentColumn.name \o "...")
                          ELSE progress
    /\ pc' = "batch"
    /\ UNCHANGED <<config, df, input_path, columns, translated_columns,
                   target_language, result, requested>>
    /\ UNCHANGED saved

\* translate_batch raises: the except clause of translate returns the failure,
\* leaving self._translated_columns as the earlier columns left it
Raise(message) ==
    /\ pc = "flight"
    /\ result' = [success |-> FALSE,
                  output_path |-> NoneStr,
                  rows_processed |-> 0,
                  columns_translated |-> 0,
                  cells_translated |-> 0,
                  error |-> message,
                  warnings |-> <<>>]
    /\ run' = NoRun
    /\ pc' = "done"
    /\ UNCHANGED <<config, df, input_path, columns, translated_columns,
                   target_language, progress, calls, requested, saved>>

\* warnings[:10]
WarningLimit == 10

FinishFailOnWarnings ==
    /\ pc = "finish"
    /\ progress' = IF progress.present
                   THEN IF progress.cancelled
                        THEN PSetMessage(progress, "Translation cancelled")
                        ELSE PComplete(progress,
                                 "Translated " \o ToString(run.cells_translated) \o " cells")
                   ELSE progress
    /\ result' = [success |-> ~IsCancelled(progress) /\ run.warnings = <<>>,
                  output_path |-> NoneStr,
                  rows_processed |-> RowCount(df),
                  columns_translated |-> Len(run.selected),
                  cells_translated |-> run.cells_translated,
                  error |-> NoneStr,
                  warnings |-> Slice(run.warnings, 0, WarningLimit)]
    /\ run' = NoRun
    /\ pc' = "done"
    /\ UNCHANGED <<config, df, input_path, columns, translated_columns,
                   target_language, calls, requested, saved>>

FinishCompleteAlways ==
    /\ pc = "finish"
    /\ progress' = IF progress.present
                   THEN PComplete(progress,
                            "Translated " \o ToString(run.cells_translated) \o " cells")
                   ELSE progress
    /\ result' = [success |-> ~IsCancelled(progress),
                  output_path |-> NoneStr,
                  rows_processed |-> RowCount(df),
                  columns_translated |-> Len(run.selected),
                  cells_translated |-> run.cells_translated,
                  error |-> NoneStr,
                  warnings |-> Slice(run.warnings, 0, WarningLimit)]
    /\ run' = NoRun
    /\ pc' = "done"
    /\ UNCHANGED <<config, df, input_path, columns, translated_columns,
                   target_language, calls, requested, saved>>

\* after the column loop: the tracker is completed, or told of the cancellation,
\* and the ProcessingResult is returned
Finish ==
    /\ pc = "finish"
    /\ progress' = IF progress.present
                   THEN IF progress.cancelled
                        THEN PSetMessage(progress, "Translation cancelled")
                        ELSE PComplete(progress,
                                 "Translated " \o ToString(run.cells_translated) \o " cells")
                   ELSE progress
    /\ result' = [success |-> ~IsCancelled(progress),
                  output_path |-> NoneStr,
                  rows_processed |-> RowCount(df),
                  columns_translated |-> Len(run.selected),
                  cells_translated |-> run.cells_translated,
                  error |-> NoneStr,
                  warnings |-> Slice(run.warnings, 0, WarningLimit)]
    /\ run' = NoRun
    /\ pc' = "done"
    /\ UNCHANGED <<config, df, input_path, columns, translated_columns,
                   target_language, calls, requested>>
    /\ UNCHANGED saved

-----------------------------------------------------------------------------
(* save(output_path). *)

\* lang_suffix: the suffix of a translated column's name
LangSuffixThree(target) == Join([i \in 1..Len(Slice(Chars(target), 0, 3)) |->
                                   Lower(Slice(Chars(target), 0, 3)[i])])

LangSuffix(target) ==
    IF target = "eng_Latn" THEN "en"
    ELSE IF \E i \in 1..Len(Chars(target)) : Chars(target)[i] = "_"
         THEN Join(Slice(SplitHead(Chars(target)), 0, 2))
         ELSE Join([i \in 1..Len(Slice(Chars(target), 0, 3)) |->
                      Lower(Slice(Chars(target), 0, 3)[i])])

\* output_df[name] = values: a new column is appended, an existing one is replaced
\* where it stands
PdAssign(out, name, values) ==
    IF \E i \in 1..Len(out) : out[i].name = name
    THEN [i \in 1..Len(out) |->
            IF out[i].name = name THEN [name |-> name, values |-> values] ELSE out[i]]
    ELSE Append(out, [name |-> name, values |-> values])

\* the loop "for col_name in self._df.columns" of save, over the first n columns
RECURSIVE OutputTable(_)
OutputTable(n) ==
    IF n = 0 THEN <<>>
    ELSE LET col_name == df.columns[n].name
             with_original == PdAssign(OutputTable(n - 1), col_name, df.columns[n].values)
         IN  IF col_name \in DOMAIN translated_columns
             THEN PdAssign(with_original,
                           col_name \o "_" \o LangSuffix(target_language),
                           translated_columns[col_name])
             ELSE with_original

\* f"{stem}_translated{ext}" next to the input file
TranslatedPath(path) ==
    CASE path = "in.csv" -> "in_translated.csv"
      [] path = "in.xlsx" -> "in_translated.xlsx"
      [] path = "a.csv" -> "a_translated.csv"
      [] path = "b.xlsx" -> "b_translated.xlsx"
      [] OTHER -> path \o "_translated"

\* Path(path).suffix.lower()
SuffixOf(path) ==
    CASE path \in {"in_translated.csv", "a_translated.csv", "out.csv", "in.csv", "a.csv"}
             -> ".csv"
      [] path \in {"in_translated.xlsx", "b_translated.xlsx", "out.xlsx", "in.xlsx",
                   "b.xlsx"} -> ".xlsx"
      [] path \in {"out.txt", "in.txt"} -> ".txt"
      [] OTHER -> ""

\* Path(output_path).with_suffix(".csv")
WithCsvSuffix(path) == IF path = "out.txt" THEN "out.csv" ELSE path \o ".csv"

\* the warnings the CLI prints for a result: their number, the first five, and
\* "... and N more" for the rest of the list it was handed
WarningsShown == 5

CliWarningReport(r) ==
    [count |-> Len(r.warnings),
     shown |-> Slice(r.warnings, 0, WarningsShown),
     more |-> IF Len(r.warnings) > WarningsShown
              THEN Len(r.warnings) - WarningsShown ELSE 0]

\* save(output_path): raises when there is nothing to write, else writes the
\* merged table and returns its path
Save(output_path) ==
    /\ Quiescent
    /\ saved' =
         IF ~df.loaded THEN [NoSave EXCEPT !.error = "No file loaded"]
         ELSE IF translated_columns = EmptyMap
         THEN [NoSave EXCEPT !.error = "No translations to save"]
         ELSE IF output_path = NoneStr /\ input_path = NoneStr
         THEN [NoSave EXCEPT !.error = "No input path available"]
         ELSE LET out == IF output_path = NoneStr THEN TranslatedPath(input_path)
                         ELSE output_path
              IN  [written |-> TRUE,
                   path |-> IF SuffixOf(out) \in {".csv", ".xlsx", ".xls"} THEN out
                            ELSE WithCsvSuffix(out),
                   columns |-> OutputTable(Len(df.columns)),
                   error |-> NoneStr]
    /\ UNCHANGED <<config, df, input_path, columns, translated_columns, target_language,
                   progress, pc, run, result, calls, requested>>

-----------------------------------------------------------------------------
(* load_file(file_path) with its failures.  What is on disk is a record:    *)
(* a table that parses, bytes no encoding decodes, or text that does not    *)
(* parse.                                                                   *)

Readable(t) == [kind |-> "table", table |-> t]

Unreadable(kind) == [kind |-> kind, table |-> <<>>]

\* load_file raises: the file is missing, the reader raises, or the extension
\* is not supported
LoadRaises(path, exists, content) ==
    IF ~exists THEN TRUE
    ELSE IF SuffixOf(path) = ".csv" THEN content.kind # "table"
    ELSE IF SuffixOf(path) \in {".xlsx", ".xls"} THEN content.kind # "table"
    ELSE TRUE

LoadFailedColumnsCleared ==
    /\ Quiescent
    /\ columns' = <<>>
    /\ UNCHANGED <<config, df, input_path, translated_columns, target_language,
                   progress, pc, run, result, calls, requested, saved>>

\* the exception leaves load_file before any attribute is assigned
LoadFailed ==
    /\ Quiescent
    /\ UNCHANGED <<config, df, input_path, columns, translated_columns, target_language,
                   progress, pc, run, result, calls, requested, saved>>

\* load_file(path) on a path that may be missing and a content that may be
\* unreadable
LoadAttempt(path, exists, content) ==
    IF LoadRaises(path, exists, content) THEN LoadFailed
    ELSE LoadFile(path, content.table)

-----------------------------------------------------------------------------
(* CLI._translate_file: one processor, driven from the command line.  The   *)
(* tracker of the running phase is self._progress.                          *)

\* the state of the processor and of its caller's history
ProcVars == <<config, df, input_path, columns, translated_columns, target_language,
              progress, pc, run, result, calls, requested, saved>>

\* "return code"
CliExit(code) == cli' = [cli EXCEPT !.pc = "exit", !.code = code]

CliGoto(label) == cli' = [cli EXCEPT !.pc = label]

\* CLI() and the entry of _translate_file: a missing file returns 1
CliStart(exists, analyze) ==
    /\ cli.pc = "none"
    /\ ~df.loaded
    /\ cli' = IF exists
              THEN [pc |-> "load", cancelled |-> FALSE, analyze |-> analyze, code |-> -1]
              ELSE [pc |-> "exit", cancelled |-> FALSE, analyze |-> analyze, code |-> 1]
    /\ UNCHANGED ProcVars
    /\ UNCHANGED <<batch, setup>>

\* processor.load_file(path)
CliLoad(path, t) ==
    /\ cli.pc = "load"
    /\ LoadFile(path, t)
    /\ CliGoto("analyze")
    /\ UNCHANGED <<batch, setup>>

\* an exception inside the try block (an unreadable file, a detector or an
\* engine that does not load): "except Exception: return 1"
CliRaise ==
    /\ cli.pc \in {"load", "analyze", "selected"}
    /\ CliExit(1)
    /\ UNCHANGED ProcVars
    /\ UNCHANGED <<batch, setup>>

\* self._progress = ProgressTracker(); processor.analyze_columns(self._progress)
CliAnalyzeBegin ==
    /\ cli.pc = "analyze"
    /\ AnalyzeBegin(FreshTracker)
    /\ CliGoto("analyzing")
    /\ UNCHANGED <<batch, setup>>

CliAnalyzeFinish ==
    /\ cli.pc = "analyzing"
    /\ AnalyzeFinish
    /\ CliGoto("analyzed")
    /\ UNCHANGED <<batch, setup>>

\* --analyze: "Analysis complete", return 0
CliAnalyzeOnly ==
    /\ cli.pc = "analyzed"
    /\ cli.analyze
    /\ CliExit(0)
    /\ UNCHANGED ProcVars
    /\ UNCHANGED <<batch, setup>>

\* --columns: processor.set_column_selection(column_names)
CliSelect(names) ==
    /\ cli.pc = "analyzed"
    /\ ~cli.analyze
    /\ SetColumnSelection(names)
    /\ CliGoto("selected")
    /\ UNCHANGED <<batch, setup>>

\* no --columns: the automatic selection stands
CliKeepSelection ==
    /\ cli.pc = "analyzed"
    /\ ~cli.analyze
    /\ CliGoto("selected")
    /\ UNCHANGED ProcVars
    /\ UNCHANGED <<batch, setup>>

\* "if not selected": return 1
CliNoneSelected ==
    /\ cli.pc = "selected"
    /\ NoneSelected(columns)
    /\ CliExit(1)
    /\ UNCHANGED ProcVars
    /\ UNCHANGED <<batch, setup>>

\* self._progress = ProgressTracker(); processor.translate(engine, self._progress, ...)
CliTranslateBegin(engine, target) ==
    /\ cli.pc = "selected"
    /\ ~NoneSelected(columns)
    /\ TranslateBegin(engine, FreshTracker, target)
    /\ CliGoto("translating")
    /\ UNCHANGED <<batch, setup>>

\* translate has returned and the user had interrupted: return 130
CliCancelled ==
    /\ cli.pc = "translating"
    /\ pc = "done"
    /\ cli.cancelled
    /\ CliExit(130)
    /\ UNCHANGED ProcVars
    /\ UNCHANGED <<batch, setup>>

\* translate has returned a result without success: return 1
CliFailed ==
    /\ cli.pc = "translating"
    /\ pc = "done"
    /\ ~cli.cancelled
    /\ ~result.success
    /\ CliExit(1)
    /\ UNCHANGED ProcVars
    /\ UNCHANGED <<batch, setup>>

\* processor.save(output_path)
CliSave(output_path) ==
    /\ cli.pc = "translating"
    /\ pc = "done"
    /\ ~cli.cancelled
    /\ result.success
    /\ Save(output_path)
    /\ CliGoto("save")
    /\ UNCHANGED <<batch, setup>>

\* the summary is printed: return 0
CliDone ==
    /\ cli.pc = "save"
    /\ saved.written
    /\ CliExit(0)
    /\ UNCHANGED ProcVars
    /\ UNCHANGED <<batch, setup>>

\* _handle_interrupt: self._cancelled = True, and self._progress.cancel() when
\* a tracker exists
CliInterrupt ==
    /\ cli.pc \notin {"none", "exit"}
    /\ ~cli.cancelled
    /\ cli' = [cli EXCEPT !.cancelled = TRUE]
    /\ progress' = IF progress.present THEN PCancel(progress) ELSE progress
    /\ UNCHANGED <<config, df, input_path, columns, translated_columns, target_language,
                   pc, run, result, calls, requested, saved>>
    /\ UNCHANGED <<batch, setup>>

\* a step of the processor inside a CLI phase
InCli == UNCHANGED <<cli, batch, setup>>

-----------------------------------------------------------------------------
(* Batch-of-files mode of thoth.main: cli.run([str(file_path), ...]) once    *)
(* per discovered file.                                                     *)

\* the first character of a discovered file's path, as handed to cli.run
FirstChar(file_path) ==
    CASE file_path = "a.csv" -> "a"
      [] file_path = "b.xlsx" -> "b"
      [] file_path = "-x.csv" -> "-"

\* what cli.run can do for a file: return an exit code, raise from
\* Config.load, or leave through parse_args, which ends the process with
\* status 2 (SystemExit) on an argument it takes for an unknown option
Returned(code) == [kind |-> "return", code |-> code]

Raised(kind) == [kind |-> kind, code |-> -1]

RunOutcomes(file_path) ==
    IF FirstChar(file_path) = "-" THEN {Raised("SystemExit")}
    ELSE {Returned(0), Returned(1), Returned(130), Raised("Exception")}

\* the batch loop starts: no file found returns 0 at once
BatchStart(csv_files) ==
    /\ batch.pc = "none"
    /\ batch' = IF csv_files = <<>>
                THEN [NoBatch EXCEPT !.pc = "exit", !.code = 0]
                ELSE [NoBatch EXCEPT !.files = csv_files, !.pc = "loop"]
    /\ UNCHANGED ProcVars
    /\ UNCHANGED <<cli, setup>>

\* one iteration: try: result = cli.run(cli_args) ... except Exception
BatchFile(outcome) ==
    /\ batch.pc = "loop"
    /\ Len(batch.attempts) < Len(batch.files)
    /\ outcome \in RunOutcomes(batch.files[Len(batch.attempts) + 1])
    /\ batch' =
         IF outcome.kind = "SystemExit"
         THEN [batch EXCEPT !.attempts = Append(@, outcome), !.pc = "exit", !.code = 2]
         ELSE IF outcome.kind = "return" /\ outcome.code = 0
         THEN [batch EXCEPT !.attempts = Append(@, outcome),
                            !.success_count = @ + 1]
         ELSE [batch EXCEPT !.attempts = Append(@, outcome),
                            !.fail_count = @ + 1]
    /\ UNCHANGED ProcVars
    /\ UNCHANGED <<cli, setup>>

\* the loop hands the next file to cli.run on the one CLI instance made before
\* the loop: _translate_file starts with a new processor, and self._cancelled
\* is as the earlier runs left it
BatchRunFile ==
    /\ batch.pc = "loop"
    /\ Len(batch.attempts) < Len(batch.files)
    /\ cli.pc \in {"none", "ready"}
    /\ cli' = [pc |-> "load", cancelled |-> cli.cancelled, analyze |-> FALSE, code |-> -1]
    /\ df' = NoDf
    /\ input_path' = NoneStr
    /\ columns' = <<>>
    /\ translated_columns' = EmptyMap
    /\ target_language' = "eng_Latn"
    /\ pc' = "idle"
    /\ run' = NoRun
    /\ requested' = EmptyMap
    /\ Forget
    /\ UNCHANGED <<config, batch, setup>>

\* cli.run has returned its code: result == 0 counts as a success
BatchRunReturned ==
    /\ batch.pc = "loop"
    /\ cli.pc = "exit"
    /\ batch' = IF cli.code = 0
                THEN [batch EXCEPT !.attempts = Append(@, Returned(cli.code)),
                                   !.success_count = @ + 1]
                ELSE [batch EXCEPT !.attempts = Append(@, Returned(cli.code)),
                                   !.fail_count = @ + 1]
    /\ cli' = [cli EXCEPT !.pc = "ready"]
    /\ UNCHANGED ProcVars
    /\ UNCHANGED setup

\* processor.load_file of the file the loop is at
BatchLoad(t) ==
    /\ batch.pc = "loop"
    /\ Len(batch.attempts) < Len(batch.files)
    /\ CliLoad(batch.files[Len(batch.attempts) + 1], t)

\* after the loop: return 0 if fail_count == 0 else 1
BatchSummary ==
    /\ batch.pc = "loop"
    /\ Len(batch.attempts) = Len(batch.files)
    /\ batch' = [batch EXCEPT !.pc = "exit",
                              !.code = IF batch.fail_count = 0 THEN 0 ELSE 1]
    /\ UNCHANGED ProcVars
    /\ UNCHANGED <<cli, setup>>

-----------------------------------------------------------------------------
(* Specifications.  Each one runs the same operations over its own inputs. *)

BatchSizes == {1, 2}

\* no translation has been stored since the file was loaded
Fresh == translated_columns = EmptyMap

\* Spec: every table of at most MaxCells cells, classified by content, and one
\* accepted translate run per loaded file, with every outcome per unit and a
\* cancellation at any instant
Init == \E b \in BatchSizes : InitWith(MakeConfig(b, DefaultColumnDefaults, EmptyMap))

Next ==
    \/ \E t \in Tables(MaxCells) : ~df.loaded /\ LoadFile("in.csv", t) /\ Lib
    \/ Reset /\ Lib
    \/ Fresh /\ AnalyzeBegin(NoTracker) /\ Lib
    \/ AnalyzeColumn(ContentDetection(df.columns[Len(columns) + 1].values)) /\ Lib
    \/ AnalyzeFinish /\ Lib
    \/ \E names \in SUBSET {ColumnNames[i] : i \in 1..Len(ColumnNames)} :
           Fresh /\ SetColumnSelection(names) /\ Lib
    \/ \E tracker \in {NoTracker, FreshTracker} :
           TranslateRejected("nllb", tracker, "eng_Latn") /\ Lib
    \/ \E tracker \in {NoTracker, FreshTracker} :
           Fresh /\ TranslateBegin("nllb", tracker, "eng_Latn") /\ Lib
    \/ ColumnLoopExit /\ Lib
    \/ ColumnBegin /\ Lib
    \/ BatchCheck /\ Lib
    \/ ColumnStore /\ Lib
    \/ Invoke /\ Lib
    \/ \E n \in 1..config.batch_size : \E kinds \in [1..n -> OutcomeKinds] : Return(kinds) /\ Lib
    \/ Finish /\ Lib
    \/ Cancel /\ Lib

Spec == Init /\ [][Next]_vars

\* LangSpec: two one-row tables of two columns, three classifications per
\* column, overrides from the configuration, set_column_language and
\* --force-lang, both engines, two target languages, rejected translate calls
\* in any state and one accepted run per loaded file
LangOverrides == {EmptyMap, [n \in {"text", "notes"} |-> IF n = "text" THEN "fra_Latn" ELSE ""]}

LangTables == { t \in TablesOf(2, 1) : IsTranslatable(t[1].values[1]) }

LangDetections ==
    {Detection("rus_Cyrl", "Russian", "foreign_text", 95),
     Detection("ace_Arab", "Acehnese", "mixed", 10),
     Detection("rus_Cyrl", "Russian", "english", 95)}

LangInit == \E ov \in LangOverrides : InitWith(MakeConfig(1, DefaultColumnDefaults, ov))

LangNext ==
    \/ \E t \in LangTables : LoadFile("in.csv", t) /\ Lib
    \/ Reset /\ Lib
    \/ \E tracker \in {NoTracker, FreshTracker} : AnalyzeBegin(tracker) /\ Lib
    \/ \E d \in LangDetections : AnalyzeColumn(d) /\ Lib
    \/ AnalyzeFinish /\ Lib
    \/ \E names \in SUBSET {ColumnNames[i] : i \in 1..Len(ColumnNames)} :
           SetColumnSelection(names) /\ Lib
    \/ \E n \in {ColumnNames[i] : i \in 1..Len(ColumnNames)} :
           \E code \in {"", "fra_Latn"} : SetColumnLanguage(n, code) /\ Lib
    \/ ForceLanguage("fra_Latn") /\ Lib
    \/ \E engine \in {"nllb", "argos"} : \E tracker \in {NoTracker, FreshTracker} :
           \E target \in {"eng_Latn", "fra_Latn"} :
               TranslateRejected(engine, tracker, target) /\ Lib
    \/ \E engine \in {"nllb", "argos"} : \E tracker \in {NoTracker, FreshTracker} :
           \E target \in {"eng_Latn", "fra_Latn"} :
               Fresh /\ TranslateBegin(engine, tracker, target) /\ Lib
    \/ ColumnLoopExit /\ Lib
    \/ ColumnBegin /\ Lib
    \/ BatchCheck /\ Lib
    \/ ColumnStore /\ Lib
    \/ Invoke /\ Lib
    \/ Return(<<"ok">>) /\ Lib
    \/ Finish /\ Lib
    \/ Cancel /\ Lib

LangSpec == LangInit /\ [][LangNext]_vars

\* PolicySpec: analyze_columns under every combination of the five column
\* defaults, with every column type handed back by the detector
PolicyInit == \E d \in AllColumnDefaults : InitWith(MakeConfig(1, d, EmptyMap))

PolicyNext ==
    \/ \E t \in TablesOf(2, 1) : ~df.loaded /\ LoadFile("in.csv", t) /\ Lib
    \/ \E tracker \in {NoTracker, FreshTracker} : AnalyzeBegin(tracker) /\ Lib
    \/ \E d \in TypeDetections : AnalyzeColumn(d) /\ Lib
    \/ AnalyzeFinish /\ Lib
    \/ Cancel /\ Lib

PolicySpec == PolicyInit /\ [][PolicyNext]_vars

\* FaultSpec: every table of at most FaultCells cells, one accepted translate run
\* per loaded file in which the engine may raise at any invocation, with every
\* outcome per unit and a cancellation at any instant, and save() after the run
FaultNext ==
    \/ \E t \in Tables(FaultCells) : ~df.loaded /\ LoadFile("in.csv", t) /\ Lib
    \/ Reset /\ Lib
    \/ Fresh /\ columns = <<>> /\ AnalyzeBegin(NoTracker) /\ Lib
    \/ AnalyzeColumn(ContentDetection(df.columns[Len(columns) + 1].values)) /\ Lib
    \/ AnalyzeFinish /\ Lib
    \/ \E tracker \in {NoTracker, FreshTracker} :
           Fresh /\ TranslateBegin("nllb", tracker, "eng_Latn") /\ Lib
    \/ ColumnLoopExit /\ Lib
    \/ ColumnBegin /\ Lib
    \/ BatchCheck /\ Lib
    \/ ColumnStore /\ Lib
    \/ Invoke /\ Lib
    \/ \E n \in 1..config.batch_size : \E kinds \in [1..n -> OutcomeKinds] :
           Return(kinds) /\ Lib
    \/ Raise("engine crashed") /\ Lib
    \/ Finish /\ Lib
    \/ Cancel /\ Lib
    \/ \E output_path \in {NoneStr, "out.txt"} : pc = "done" /\ Save(output_path) /\ Lib

FaultSpec == Init /\ [][FaultNext]_vars

\* WarnSpec: one table of two full columns of WarnRows rows, both selected, and
\* every combination of translated and failed units, so that a run produces
\* from 0 to 2 * WarnRows warnings
WarnTable == [c \in 1..2 |-> MakeColumn(ColumnNames[c], WarnRows, 0..(WarnRows - 1))]

WarnInit == InitWith(MakeConfig(WarnBatchSize, DefaultColumnDefaults, EmptyMap))

WarnNext ==
    \/ ~df.loaded /\ LoadFile("in.csv", WarnTable) /\ Lib
    \/ Fresh /\ columns = <<>> /\ AnalyzeBegin(NoTracker) /\ Lib
    \/ AnalyzeColumn(Detection("rus_Cyrl", "Russian", "foreign_text", 95)) /\ Lib
    \/ AnalyzeFinish /\ Lib
    \/ Fresh /\ TranslateBegin("nllb", NoTracker, "eng_Latn") /\ Lib
    \/ ColumnLoopExit /\ Lib
    \/ ColumnBegin /\ Lib
    \/ BatchCheck /\ Lib
    \/ ColumnStore /\ Lib
    \/ Invoke /\ Lib
    \/ \E n \in 1..config.batch_size : \E kinds \in [1..n -> {"ok", "fail"}] :
           Return(kinds) /\ Lib
    \/ Finish /\ Lib

WarnSpec == WarnInit /\ [][WarnNext]_vars

\* SaveSpec: one-row tables of two columns, among them tables that already hold
\* a column named like a translated one, any selection, four target codes, and
\* save() to the default path or to a given one
SaveColumnNames == {<<"text", "notes">>, <<"notes", "notes_en">>, <<"notes_en", "notes">>}

SaveTables == { [c \in 1..2 |-> MakeColumn(ns[c], 1, {0})] : ns \in SaveColumnNames }

SaveTargets == {"eng_Latn", "fra_Latn", "fra", "Fra"}

SaveInit == InitWith(MakeConfig(1, DefaultColumnDefaults, EmptyMap))

SaveNext ==
    \/ \E t \in SaveTables : ~df.loaded /\ LoadFile("in.csv", t) /\ Lib
    \/ Fresh /\ columns = <<>> /\ AnalyzeBegin(NoTracker) /\ Lib
    \/ AnalyzeColumn(Detection("rus_Cyrl", "Russian", "mixed", 60)) /\ Lib
    \/ AnalyzeFinish /\ Lib
    \/ \E names \in SUBSET {"text", "notes", "notes_en"} :
           Fresh /\ SetColumnSelection(names) /\ Lib
    \/ \E target \in SaveTargets : Fresh /\ TranslateBegin("nllb", NoTracker, target) /\ Lib
    \/ ColumnLoopExit /\ Lib
    \/ ColumnBegin /\ Lib
    \/ BatchCheck /\ Lib
    \/ ColumnStore /\ Lib
    \/ Invoke /\ Lib
    \/ \E kind \in {"ok", "fail"} : Return(<<kind>>) /\ Lib
    \/ Finish /\ Lib
    \/ \E output_path \in {NoneStr, "out.txt"} : Save(output_path) /\ Lib

SaveSpec == SaveInit /\ [][SaveNext]_vars

\* CliSpec: one single-file CLI run over a one-row table of two columns, with or
\* without --analyze and --columns, every classification that selects or skips
\* a column, every outcome of the engine, and an interrupt at any instant
CliDetections ==
    {Detection("rus_Cyrl", "Russian", "foreign_text", 95),
     Detection("eng_Latn", "English", "english", 95)}

CliInit == InitWith(MakeConfig(1, DefaultColumnDefaults, EmptyMap))

CliNext ==
    \/ \E exists \in BOOLEAN : \E analyze \in BOOLEAN : CliStart(exists, analyze)
    \/ \E t \in TablesOf(2, 1) : CliLoad("in.csv", t)
    \/ CliRaise
    \/ CliAnalyzeBegin
    \/ \E d \in CliDetections : AnalyzeColumn(d) /\ InCli
    \/ CliAnalyzeFinish
    \/ CliAnalyzeOnly
    \/ \E names \in {{"text"}, {"other"}} : CliSelect(names)
    \/ CliKeepSelection
    \/ CliNoneSelected
    \/ CliTranslateBegin("nllb", "eng_Latn")
    \/ ColumnLoopExit /\ InCli
    \/ ColumnBegin /\ InCli
    \/ BatchCheck /\ InCli
    \/ ColumnStore /\ InCli
    \/ Invoke /\ InCli
    \/ \E kind \in {"ok", "fail"} : Return(<<kind>>) /\ InCli
    \/ Raise("engine crashed") /\ InCli
    \/ Finish /\ InCli
    \/ CliCancelled
    \/ CliFailed
    \/ CliSave(NoneStr)
    \/ CliDone
    \/ CliInterrupt

CliSpec == CliInit /\ [][CliNext]_vars

\* BatchSpec: a batch run over up to MaxFiles discovered files, in any order,
\* with every outcome of each file's run
FileNames == {"a.csv", "b.xlsx", "-x.csv"}

FileLists ==
    UNION { { f \in [1..n -> FileNames] : \A i, j \in 1..n : f[i] = f[j] => i = j } :
              n \in 0..MaxFiles }

BatchInit == InitWith(MakeConfig(1, DefaultColumnDefaults, EmptyMap))

BatchNext ==
    \/ \E csv_files \in FileLists : BatchStart(csv_files)
    \/ \E outcome \in UNION { RunOutcomes(f) : f \in FileNames } : BatchFile(outcome)
    \/ BatchSummary

BatchSpec == BatchInit /\ [][BatchNext]_vars

\* CliBatchSpec: a batch run over up to two discovered files, each handed to
\* the single-file flow of the one CLI instance, over one-row tables of two
\* columns, with every outcome of the engine and an interrupt at any instant,
\* also between two files
CliBatchFiles == { f \in FileLists : \A i \in 1..Len(f) : FirstChar(f[i]) # "-" }

CliBatchNext ==
    \/ \E csv_files \in CliBatchFiles : BatchStart(csv_files)
    \/ BatchRunFile
    \/ \E t \in TablesOf(2, 1) : BatchLoad(t)
    \/ CliRaise
    \/ CliAnalyzeBegin
    \/ \E d \in CliDetections : AnalyzeColumn(d) /\ InCli
    \/ CliAnalyzeFinish
    \/ CliKeepSelection
    \/ CliNoneSelected
    \/ CliTranslateBegin("nllb", "eng_Latn")
    \/ ColumnLoopExit /\ InCli
    \/ ColumnBegin /\ InCli
    \/ BatchCheck /\ InCli
    \/ ColumnStore /\ InCli
    \/ Invoke /\ InCli
    \/ \E kind \in {"ok", "fail"} : Return(<<kind>>) /\ InCli
    \/ Raise("engine crashed") /\ InCli
    \/ Finish /\ InCli
    \/ CliCancelled
    \/ CliFailed
    \/ CliSave(NoneStr)
    \/ CliDone
    \/ CliInterrupt
    \/ BatchRunReturned
    \/ BatchSummary

CliBatchSpec == BatchInit /\ [][CliBatchNext]_vars

\* RunSpec: the two-row tables of two columns, any selection of the analysed
\* columns, and one accepted translate run per loaded file, with or without a
\* tracker, with every outcome per unit, an engine that may raise at any
\* invocation and a cancellation at any instant
RunNext ==
    \/ \E t \in TablesOf(2, RunRows) : ~df.loaded /\ LoadFile("in.csv", t) /\ Lib
    \/ Fresh /\ columns = <<>> /\ AnalyzeBegin(NoTracker) /\ Lib
    \/ AnalyzeColumn(ContentDetection(df.columns[Len(columns) + 1].values)) /\ Lib
    \/ AnalyzeFinish /\ Lib
    \/ \E names \in SUBSET {ColumnNames[i] : i \in 1..Len(ColumnNames)} :
           Fresh /\ pc = "idle" /\ columns # <<>> /\ SetColumnSelection(names) /\ Lib
    \/ \E tracker \in {NoTracker, FreshTracker} :
           Fresh /\ TranslateBegin("nllb", tracker, "eng_Latn") /\ Lib
    \/ ColumnLoopExit /\ Lib
    \/ ColumnBegin /\ Lib
    \/ BatchCheck /\ Lib
    \/ ColumnStore /\ Lib
    \/ Invoke /\ Lib
    \/ \E n \in 1..config.batch_size : \E kinds \in [1..n -> OutcomeKinds] :
           Return(kinds) /\ Lib
    \/ Raise("engine crashed") /\ Lib
    \/ Finish /\ Lib
    \/ Cancel /\ Lib

RunSpec == Init /\ [][RunNext]_vars

\* a step of the translate call in progress
RunStep ==
    \/ ColumnLoopExit /\ Lib
    \/ ColumnBegin /\ Lib
    \/ BatchCheck /\ Lib
    \/ ColumnStore /\ Lib
    \/ Invoke /\ Lib
    \/ \E n \in 1..config.batch_size : \E kinds \in [1..n -> OutcomeKinds] :
           Return(kinds) /\ Lib
    \/ Raise("engine crashed") /\ Lib
    \/ Finish /\ Lib

\* RunLiveSpec: every table of at most LiveCells cells, any selection, one
\* accepted translate run per loaded file with a tracker that may be cancelled
\* at any instant.  translate is sequential code: while it has not returned
\* it moves on to its next position, given that every translate_batch call
\* returns or raises (weak fairness of Advance; every RunStep changes pc, and
\* nothing else does while the call is in progress)
RunLiveNext ==
    \/ \E t \in Tables(LiveCells) : ~df.loaded /\ LoadFile("in.csv", t) /\ Lib
    \/ Fresh /\ columns = <<>> /\ AnalyzeBegin(NoTracker) /\ Lib
    \/ AnalyzeColumn(ContentDetection(df.columns[Len(columns) + 1].values)) /\ Lib
    \/ AnalyzeFinish /\ Lib
    \/ \E names \in SUBSET {ColumnNames[i] : i \in 1..Len(ColumnNames)} :
           Fresh /\ pc = "idle" /\ columns # <<>> /\ SetColumnSelection(names) /\ Lib
    \/ Fresh /\ TranslateBegin("nllb", FreshTracker, "eng_Latn") /\ Lib
    \/ RunStep
    \/ Cancel /\ Lib

\* the translate call in progress moves to its next position
Advance ==
    /\ pc \in {"col", "batch", "call", "flight", "finish"}
    /\ pc' \in {"col", "batch", "call", "flight", "finish", "done"}
    /\ pc' # pc

RunLiveSpec == Init /\ [][RunLiveNext]_vars /\ WF_pc(Advance)

\* RerunSpec: one one-row table of two text columns, analysed once, and any
\* sequence of selections, translate runs to either of two target languages,
\* and save() calls on it
RerunTable == [c \in 1..2 |-> MakeColumn(ColumnNames[c], 1, {0})]

RerunTargets == {"eng_Latn", "fra_Latn"}

RerunNext ==
    \/ ~df.loaded /\ LoadFile("in.csv", RerunTable) /\ Lib
    \/ columns = <<>> /\ AnalyzeBegin(NoTracker) /\ Lib
    \/ AnalyzeColumn(Detection("rus_Cyrl", "Russian", "foreign_text", 95)) /\ Lib
    \/ AnalyzeFinish /\ Lib
    \/ \E names \in SUBSET {ColumnNames[i] : i \in 1..Len(ColumnNames)} :
           columns # <<>> /\ SetColumnSelection(names) /\ Lib
    \/ \E target \in RerunTargets : TranslateBegin("nllb", NoTracker, target) /\ Lib
    \/ ColumnLoopExit /\ Lib
    \/ ColumnBegin /\ Lib
    \/ BatchCheck /\ Lib
    \/ ColumnStore /\ Lib
    \/ Invoke /\ Lib
    \/ \E kind \in {"ok", "fail"} : Return(<<kind>>) /\ Lib
    \/ Finish /\ Lib
    \/ pc = "done" /\ Save(NoneStr) /\ Lib

RerunSpec == SaveInit /\ [][RerunNext]_vars

\* LoadSpec: load_file at any quiescent instant, of a present or missing path
\* with a supported or unsupported extension and readable or unreadable
\* content, between analyses, selections, translate runs to either target
\* language and save() calls
LoadPaths == {"in.csv", "in.xlsx", "in.txt"}

LoadContents ==
    {Readable(RerunTable), Readable(<<MakeColumn("text", 1, {0})>>),
     Unreadable("undecodable"), Unreadable("unparsable")}

LoadNext ==
    \/ \E path \in LoadPaths : \E exists \in BOOLEAN : \E content \in LoadContents :
           LoadAttempt(path, exists, content) /\ Lib
    \/ df.loaded /\ columns = <<>> /\ AnalyzeBegin(NoTracker) /\ Lib
    \/ AnalyzeColumn(Detection("rus_Cyrl", "Russian", "foreign_text", 95)) /\ Lib
    \/ AnalyzeFinish /\ Lib
    \/ \E names \in SUBSET {ColumnNames[i] : i \in 1..Len(ColumnNames)} :
           Fresh /\ columns # <<>> /\ SetColumnSelection(names) /\ Lib
    \/ \E target \in RerunTargets :
           Fresh /\ TranslateBegin("nllb", NoTracker, target) /\ Lib
    \/ ColumnLoopExit /\ Lib
    \/ ColumnBegin /\ Lib
    \/ BatchCheck /\ Lib
    \/ ColumnStore /\ Lib
    \/ Invoke /\ Lib
    \/ Return(<<"ok">>) /\ Lib
    \/ Finish /\ Lib
    \/ pc = "done" /\ Save(NoneStr) /\ Lib

LoadSpec == SaveInit /\ [][LoadNext]_vars

-----------------------------------------------------------------------------
(* translator/setup.py: downloading the language-identification model.      *)
(* The file lid218e.bin is counted in chunks of 8192 bytes; the server      *)
(* holds ModelChunks of them.                                               *)

\* chunks of the complete model file (LID_MODEL_SIZE bytes, read 8192 at a time)
ModelChunks == 2

\* download_lid_model calls explored
MaxLidCalls == 3

\* what one download_lid_model call did: its return value, whether it called
\* download_file, and the file at lid_path when it returned
LidCall(returned, downloaded) ==
    [returned |-> returned, downloaded |-> downloaded,
     exists |-> setup.lid.exists, chunks |-> setup.lid.chunks]

\* download_lid_model: lid_path.exists() -> return True, nothing is downloaded
LidAlreadyExists ==
    /\ setup.pc = "idle"
    /\ Len(setup.lid_calls) < MaxLidCalls
    /\ setup.lid.exists
    /\ setup' = [setup EXCEPT !.lid_calls = Append(@, LidCall(TRUE, FALSE))]
    /\ UNCHANGED ProcVars
    /\ UNCHANGED <<cli, batch>>

\* download_lid_model: no file at lid_path -> download_file is entered
LidDownloadBegin ==
    /\ setup.pc = "idle"
    /\ Len(setup.lid_calls) < MaxLidCalls
    /\ ~setup.lid.exists
    /\ setup' = [setup EXCEPT !.pc = "connect"]
    /\ UNCHANGED ProcVars
    /\ UNCHANGED <<cli, batch>>

\* download_file: mkdir, urlopen or open raises before the file is created ->
\* except Exception: return False
DownloadConnectFails ==
    /\ setup.pc = "connect"
    /\ setup' = [setup EXCEPT !.pc = "idle",
                              !.lid_calls = Append(@, LidCall(FALSE, TRUE))]
    /\ UNCHANGED ProcVars
    /\ UNCHANGED <<cli, batch>>

\* download_file: urlopen answered; open(dest_path, "wb") creates the empty file
DownloadOpen ==
    /\ setup.pc = "connect"
    /\ setup' = [setup EXCEPT !.pc = "read", !.lid = [exists |-> TRUE, chunks |-> 0]]
    /\ UNCHANGED ProcVars
    /\ UNCHANGED <<cli, batch>>

\* download_file: response.read(8192) returned a chunk; f.write(chunk)
DownloadChunk ==
    /\ setup.pc = "read"
    /\ setup.lid.chunks < ModelChunks
    /\ setup' = [setup EXCEPT !.lid.chunks = @ + 1]
    /\ UNCHANGED ProcVars
    /\ UNCHANGED <<cli, batch>>

\* download_file: response.read or f.write raises part-way; the with blocks
\* close the file, nothing removes it -> except Exception: return False
DownloadReadFails ==
    /\ setup.pc = "read"
    /\ setup.lid.chunks < ModelChunks
    /\ setup' = [setup EXCEPT !.pc = "idle",
                              !.lid_calls = Append(@, LidCall(FALSE, TRUE))]
    /\ UNCHANGED ProcVars
    /\ UNCHANGED <<cli, batch>>

\* download_file: response.read returned b"" after the last chunk -> return True
DownloadComplete ==
    /\ setup.pc = "read"
    /\ setup.lid.chunks = ModelChunks
    /\ setup' = [setup EXCEPT !.pc = "idle",
                              !.lid_calls = Append(@, LidCall(TRUE, TRUE))]
    /\ UNCHANGED ProcVars
    /\ UNCHANGED <<cli, batch>>

\* check_models: "lid" is (models_dir / "lid218e.bin").exists()
CheckModels ==
    /\ setup.pc = "idle"
    /\ setup' = [setup EXCEPT !.status = [checked |-> TRUE, lid |-> setup.lid.exists]]
    /\ UNCHANGED ProcVars
    /\ UNCHANGED <<cli, batch>>

SetupNext ==
    \/ LidAlreadyExists
    \/ LidDownloadBegin
    \/ DownloadConnectFails
    \/ DownloadOpen
    \/ DownloadChunk
    \/ DownloadReadFails
    \/ DownloadComplete
    \/ CheckModels

SetupSpec == Init /\ [][SetupNext]_vars

-----------------------------------------------------------------------------
(* Properties.  What they need besides the state: *)

\* a cell the orchestrator must not send: empty, whitespace-only or the null marker
BlankCell(v) == v \in {"", " ", "nan"}

\* a translate call that entered the column loop has returned
RunReturned == pc = "done" /\ result.error = NoneStr

\* the invocations issued for column c, in order
CallsFor(c) == SelectSeq(calls, LAMBDA k : k.column = c)

\* the number of invocations issued for the same column before invocation j
EarlierCalls(j) == Cardinality({ i \in 1..(j - 1) : calls[i].column = calls[j].column })

\* the units (texts, 0-based rows) of column c, by the claim's definition of a blank cell
UnitRows(c) ==
    LET values == ColumnValues(df, c)
        F[i \in 0..Len(values)] ==
            IF i = 0 THEN <<>>
            ELSE IF BlankCell(values[i]) THEN F[i - 1] ELSE Append(F[i - 1], i - 1)
    IN  F[Len(values)]

UnitTexts(c) == [i \in 1..Len(UnitRows(c)) |-> ColumnValues(df, c)[UnitRows(c)[i] + 1]]

\* every outcome returned so far, with its column, 0-based row and source text
OutcomeLog ==
    Flatten([j \in 1..Len(calls) |->
               [i \in 1..Len(calls[j].results) |->
                  [column |-> calls[j].column, row |-> calls[j].rows[i],
                   text |-> calls[j].texts[i], outcome |-> calls[j].results[i]]]])

\* the names of the columns selected for the run that has returned
SelectedNames == { columns[i].name : i \in { j \in 1..Len(columns) : columns[j].selected } }

CountIn(keep) == Cardinality({ i \in 1..Len(keep) : keep[i] })

\* C1: every stored output array has the length of its column, holds "" at
\* exactly the rows whose source cell is empty, whitespace-only or "nan", and at
\* every other row holds a translation or the original text, never "".
C1_RowPreservation ==
    \A c \in DOMAIN translated_columns :
        LET values == ColumnValues(df, c)
            out == translated_columns[c]
        IN  /\ Len(out) = Len(values)
            /\ \A r \in 1..Len(values) :
                   IF BlankCell(values[r]) THEN out[r] = ""
                   ELSE out[r] # "" /\ out[r] \in {values[r], TranslationOf(values[r])}

\* C2: an invocation issued after cancel() is the last invocation of the run:
\* at most one starts after the cancel, and none for a later batch or column.
C2_CancelStopsInvocations ==
    \A j \in 1..Len(calls) : calls[j].cancelled => j = Len(calls)

\* C2 witness: a run returned with an invocation issued after the cancel and
\* units left unsent behind it
C2_Witness ==
    /\ RunReturned
    /\ Len(calls) >= 2
    /\ calls[Len(calls)].cancelled
    /\ progress.completed < progress.total

\* C3: the k-th invocation for a column sends the units k*B .. min((k+1)*B, U)
\* of the column, in row order: B units, or U mod B in a final short batch; and
\* a run that returns without cancellation has issued ceil(U/B) invocations
\* for every selected column, whose concatenation is the column's unit list.
C3_BatchPartition ==
    LET B == config.batch_size
    IN  /\ \A j \in 1..Len(calls) :
               LET U == UnitTexts(calls[j].column)
                   k == EarlierCalls(j)
               IN  /\ k * B < Len(U)
                   /\ calls[j].batch_start = k * B
                   /\ Len(calls[j].texts) = IF (k + 1) * B <= Len(U) THEN B ELSE Len(U) % B
                   /\ calls[j].texts = SubSeq(U, k * B + 1, k * B + Len(calls[j].texts))
                   /\ calls[j].rows =
                          SubSeq(UnitRows(calls[j].column), k * B + 1,
                                 k * B + Len(calls[j].texts))
                   /\ Len(calls[j].langs) = Len(calls[j].texts)
        /\ (RunReturned /\ ~progress.cancelled) =>
               \A c \in SelectedNames :
                   /\ Len(CallsFor(c)) = (Len(UnitTexts(c)) + B - 1) \div B
                   /\ Flatten([i \in 1..Len(CallsFor(c)) |-> CallsFor(c)[i].texts])
                          = UnitTexts(c)

\* C3 witness: batch size 2 over 5 units gave invocations of sizes 2, 2, 1
C3_Witness ==
    /\ RunReturned
    /\ ~progress.cancelled
    /\ config.batch_size = 2
    /\ \E c \in SelectedNames :
           /\ Len(UnitTexts(c)) = 5
           /\ [i \in 1..Len(CallsFor(c)) |-> Len(CallsFor(c)[i].texts)] = <<2, 2, 1>>

\* every unit of every selected column has an outcome, exactly one of them fails
\* and the others succeed, with a translated text outside the set empty
OneFailure(empty) ==
    /\ RunReturned
    /\ Len(OutcomeLog) = SeqSum([i \in 1..Len(columns) |->
                                   IF columns[i].selected
                                   THEN Len(UnitTexts(columns[i].name)) ELSE 0])
    /\ CountIn([i \in 1..Len(OutcomeLog) |-> ~OutcomeLog[i].outcome.success]) = 1
    /\ \A i \in 1..Len(OutcomeLog) :
           OutcomeLog[i].outcome.success => OutcomeLog[i].outcome.translated_text \notin empty

\* the result of a run with one failed unit, as C4 states it
OneFailureResult ==
    LET f == CHOOSE i \in 1..Len(OutcomeLog) : ~OutcomeLog[i].outcome.success
        o == OutcomeLog[f]
    IN  /\ translated_columns[o.column][o.row + 1] = o.text
        /\ Len(result.warnings) = 1
        /\ result.warnings[1].row = o.row + 1
        /\ result.warnings[1].column = o.column
        /\ result.cells_translated = Len(OutcomeLog) - 1

CountedResult(empty) ==
    LET counted == [i \in 1..Len(OutcomeLog) |->
                       /\ OutcomeLog[i].outcome.success
                       /\ OutcomeLog[i].outcome.translated_text \notin empty]
    IN  RunReturned =>
            /\ result.cells_translated = CountIn(counted)
            /\ \A i \in 1..Len(OutcomeLog) :
                   LET o == OutcomeLog[i]
                   IN  translated_columns[o.column][o.row + 1] =
                           IF counted[i] THEN o.outcome.translated_text ELSE o.text

\* C5 as claimed: cells_translated counts the outcomes with success = true, whose
\* rows hold the translated text; the outcomes with success = false, and only
\* those, leave the original text and are not counted.
C5_AsClaimed == CountedResult({})

\* C5 as amended: cells_translated counts the outcomes with success = true and a
\* non-empty translated text, whose rows hold that text; every other outcome
\* (a failure, or a success with empty text) leaves the original text and is
\* not counted.
C5_CountsTranslations == CountedResult({""})

\* C5 witness: a run returned with a translation, an empty translation and a failure
C5_Witness ==
    /\ RunReturned
    /\ \E i, j, k \in 1..Len(OutcomeLog) :
           /\ OutcomeLog[i].outcome.success /\ OutcomeLog[i].outcome.translated_text # ""
           /\ OutcomeLog[j].outcome.success /\ OutcomeLog[j].outcome.translated_text = ""
           /\ ~OutcomeLog[k].outcome.success

\* the warnings raised so far in the run, or returned by it
WarningsSoFar == IF pc = "done" THEN result.warnings ELSE run.warnings

\* C9: no blank cell is sent, warned about or counted; a column without a
\* translatable cell causes no invocation and is stored as "" in every row.
C9_BlankCellsSkipped ==
    /\ \A j \in 1..Len(calls) :
           /\ calls[j].texts # <<>>
           /\ \A i \in 1..Len(calls[j].texts) :
                  /\ ~BlankCell(calls[j].texts[i])
                  /\ calls[j].texts[i] = ColumnValues(df, calls[j].column)[calls[j].rows[i] + 1]
    /\ \A i \in 1..Len(WarningsSoFar) :
           ~BlankCell(ColumnValues(df, WarningsSoFar[i].column)[WarningsSoFar[i].row])
    /\ (IF pc = "done" THEN result.cells_translated ELSE run.cells_translated)
           <= Len(OutcomeLog)
    /\ \A c \in DOMAIN translated_columns :
           (\A r \in 1..Len(ColumnValues(df, c)) : BlankCell(ColumnValues(df, c)[r])) =>
               /\ translated_columns[c] = [r \in 1..Len(ColumnValues(df, c)) |-> ""]
               /\ CallsFor(c) = <<>>

\* C9 witness: a completed run over a blank column and a column with text
C9_Witness ==
    /\ RunReturned
    /\ result.success
    /\ calls # <<>>
    /\ \E c \in DOMAIN translated_columns :
           /\ Len(ColumnValues(df, c)) >= 2
           /\ \A r \in 1..Len(ColumnValues(df, c)) : BlankCell(ColumnValues(df, c)[r])

\* a step that is a call of translate: the caller leaves a quiescent state for
\* the returned result of a rejected call or for the column loop
TranslateCalled == Quiescent /\ pc' \in {"done", "col"}

\* C6: translate called with no file loaded or no column selected returns a
\* failed result at once: no invocation, the tracker neither started nor
\* updated, and the target language, column states and translated columns
\* exactly as they were.
C6_RejectedChangesNothing ==
    [][ (TranslateCalled /\ (~df.loaded \/ \A i \in 1..Len(columns) : ~columns[i].selected))
          => /\ pc' = "done"
             /\ ~result'.success
             /\ result'.error \in {"No file loaded", "No columns selected for translation"}
             /\ result'.cells_translated = 0
             /\ calls' = <<>>
             /\ progress' \in {NoTracker, FreshTracker}
             /\ UNCHANGED <<target_language, columns, translated_columns, df,
                            input_path, config>> ]_vars

\* C6 witness: a rejected call made after a run to French stored a column, with
\* a tracker handed in
C6_Witness ==
    /\ pc = "done"
    /\ result.error = "No columns selected for translation"
    /\ columns # <<>>
    /\ translated_columns # EmptyMap
    /\ target_language = "fra_Latn"
    /\ progress = FreshTracker

\* the effective language the caller asked for, with unset the override values
\* that count as no override
AskedLanguage(name, unset) ==
    IF requested[name].override \notin unset THEN requested[name].override
    ELSE requested[name].detected

\* C7 as claimed: effective_language is the override whenever one has been set
\* (is not None), and the detected dominant language otherwise.
C7_AsClaimed ==
    \A i \in 1..Len(columns) :
        EffectiveLanguage(columns[i]) = AskedLanguage(columns[i].name, {NoneStr})

\* C7 as amended: effective_language is the override whenever a non-empty
\* override has been set, and the detected dominant language otherwise (an
\* empty-string override counts as no override).
C7_OverrideWins ==
    \A i \in 1..Len(columns) :
        EffectiveLanguage(columns[i]) =
            AskedLanguage(columns[i].name, {NoneStr, ""})

\* C7 witness: a low-confidence mixed column whose override was set by
\* set_column_language over a different detected language
C7_Witness ==
    \E i \in 1..Len(columns) :
        /\ columns[i].column_type = "mixed"
        /\ columns[i].confidence = 10
        /\ MapGet(config.column_overrides, columns[i].name) # "fra_Latn"
        /\ requested[columns[i].name].override = "fra_Latn"
        /\ columns[i].detected_language = "ace_Arab"
        /\ EffectiveLanguage(columns[i]) = "fra_Latn"

\* the code the claim expects for language lang under an engine: the registry's
\* code for Argos, or the 2-letter prefix when the registry has none
ExpectedSourceCode(lang, engine) ==
    IF engine = "argos"
    THEN IF ToArgos(lang) # NoneStr THEN ToArgos(lang) ELSE Prefix(lang, 2)
    ELSE lang

\* C8: every source code sent to translate_batch is the column's effective
\* language (the override if set, else the detected language) in the engine's
\* code space; with an override set, the code derives from the override.
C8_SourceFromEffectiveLanguage ==
    \A j \in 1..Len(calls) : \A i \in 1..Len(calls[j].langs) :
        calls[j].langs[i] =
            ExpectedSourceCode(AskedLanguage(calls[j].column, {NoneStr, ""}),
                               calls[j].engine)

\* C10: _should_auto_select is true for mixed under every configuration, true
\* for foreign_text exactly when auto_select_foreign_text is on, and false in
\* every other case, whatever the skip flags.
C10_AutoSelectRule ==
    \A i \in 1..Len(columns) :
        columns[i].selected =
            (\/ columns[i].column_type = "mixed"
             \/ /\ columns[i].column_type = "foreign_text"
                /\ config.column_defaults.auto_select_foreign_text)

\* C10 witness: an english column analysed with skip_english off stays unselected,
\* beside a mixed column selected with every flag off
C10_Witness ==
    /\ pc = "idle"
    /\ Len(columns) = 2
    /\ config.column_defaults =
           [skip_empty |-> FALSE, skip_numeric |-> FALSE, skip_dates |-> FALSE,
            skip_english |-> FALSE, auto_select_foreign_text |-> FALSE]
    /\ columns[1].column_type = "english" /\ ~columns[1].selected
    /\ columns[2].column_type = "mixed" /\ columns[2].selected

-----------------------------------------------------------------------------
(* Run-level outcomes. *)

\* a translate call that entered the column loop has returned, in any way
RunEnded == pc = "done" /\ (result.error = NoneStr \/ calls # <<>>)

\* the last invocation of the run raised instead of returning outcomes
Faulted == calls # <<>> /\ calls[Len(calls)].results = <<>>

Completed(r) == r.success /\ r.error = NoneStr

\* success false, no error message, and the statistics of the work done
CancelledOutcome(r) ==
    /\ ~r.success
    /\ r.error = NoneStr
    /\ r.rows_processed = RowCount(df)
    /\ r.columns_translated = Cardinality(SelectedNames)
    /\ r.cells_translated =
           CountIn([i \in 1..Len(OutcomeLog) |->
                      /\ OutcomeLog[i].outcome.success
                      /\ OutcomeLog[i].outcome.translated_text # ""])

Failed(r) == ~r.success /\ r.error \notin {NoneStr, ""}

\* C11: a translate run that entered the column loop returns exactly one of
\* Completed, Cancelled and Failed: Failed exactly when an exception escaped the
\* loop, Cancelled exactly when the tracker was cancelled and no exception
\* escaped, Completed otherwise, whatever the per-unit outcomes were; a run in
\* which every unit fails, without cancellation or exception, ends Completed
\* with cells_translated = 0.
C11_RunOutcome ==
    RunEnded =>
        /\ CountIn(<<Completed(result), CancelledOutcome(result), Failed(result)>>) = 1
        /\ Failed(result) <=> Faulted
        /\ CancelledOutcome(result) <=> (~Faulted /\ IsCancelled(progress))
        /\ (/\ ~Faulted
            /\ ~IsCancelled(progress)
            /\ \A i \in 1..Len(OutcomeLog) : ~OutcomeLog[i].outcome.success)
               => (Completed(result) /\ result.cells_translated = 0)

\* C11 witness: two units, both failed, no cancellation: Completed with no cell
\* translated and two warnings
C11_Witness ==
    /\ RunEnded
    /\ Len(OutcomeLog) = 2
    /\ \A i \in 1..Len(OutcomeLog) : ~OutcomeLog[i].outcome.success
    /\ progress.present /\ ~progress.cancelled
    /\ Completed(result)
    /\ result.cells_translated = 0
    /\ Len(result.warnings) = 2

\* C12: when translate ends in Failed because an exception escaped the loop, the
\* cause is reported in the result and no file is written from that run: a
\* save() that follows does not write the columns stored before the fault.
C12_NoPartialFile ==
    (RunEnded /\ Faulted) =>
        /\ Failed(result)
        /\ result.error = "engine crashed"
        /\ ~saved.written

-----------------------------------------------------------------------------
(* Warnings. *)

\* every warning the run produced, in order of occurrence
AllWarnings ==
    LET pos == SelectPos([i \in 1..Len(OutcomeLog) |->
                            /\ ~(/\ OutcomeLog[i].outcome.success
                                 /\ OutcomeLog[i].outcome.translated_text # "")
                            /\ OutcomeLog[i].outcome.error \notin {NoneStr, ""}])
    IN  [k \in 1..Len(pos) |->
           [row |-> OutcomeLog[pos[k]].row + 1,
            column |-> OutcomeLog[pos[k]].column,
            error |-> OutcomeLog[pos[k]].outcome.error]]

\* C13: for any number W of per-unit warnings, the result holds the first
\* min(W, 10) of them in order of occurrence, and the number of warnings beyond
\* the 10 retained, W - 10, is reported as an overflow count (the only count of
\* withheld warnings the program reports is the "... and N more" of the CLI).
C13_WarningCap ==
    RunReturned =>
        LET W == Len(AllWarnings)
        IN  /\ Len(result.warnings) = Min(W, WarningLimit)
            /\ result.warnings = SubSeq(AllWarnings, 1, Min(W, WarningLimit))
            /\ W > WarningLimit => CliWarningReport(result).more = W - WarningLimit

-----------------------------------------------------------------------------
(* The written table. *)

\* the names of the columns of the written table
SavedNames == { saved.columns[i].name : i \in 1..Len(saved.columns) }

\* the short code as claimed: the 2-letter prefix of the target code, en for eng_Latn
ShortAsClaimed(target) == IF target = "eng_Latn" THEN "en" ELSE Prefix(target, 2)

\* the short code as amended, for the target codes of SaveSpec
ShortAmended(target) ==
    CASE target = "eng_Latn" -> "en"
      [] target = "fra_Latn" -> "fr"
      [] target = "fra" -> "fra"
      [] target = "Fra" -> "fra"

\* C14 as claimed: save names every translated column {original}_{short}, short
\* being the 2-letter prefix of the target code of the run (en for eng_Latn),
\* for every target code translate accepts.
C14_AsClaimed ==
    saved.written =>
        \A c \in DOMAIN translated_columns :
            (c \o "_" \o ShortAsClaimed(target_language)) \in SavedNames

\* C14 as amended: save names every translated column {original}_{short}; for a
\* target code with an underscore short is the first two characters of the part
\* before it (fra_Latn gives fr, eng_Latn gives en), and for a target code
\* without underscore it is the first three characters in lower case (fra and
\* Fra give fra).
C14_SaveNaming ==
    saved.written =>
        \A c \in DOMAIN translated_columns :
            (c \o "_" \o ShortAmended(target_language)) \in SavedNames

\* C14 witness: fra_Latn with column notes gives notes_fr
C14_Witness ==
    /\ saved.written
    /\ target_language = "fra_Latn"
    /\ "notes" \in DOMAIN translated_columns
    /\ "notes_fr" \in SavedNames
    /\ "notes_fra" \notin SavedNames

\* the table save is to write: every original column, each followed at once by
\* its translated column when it has one
MergedTable ==
    Flatten([i \in 1..Len(df.columns) |->
               IF df.columns[i].name \in DOMAIN translated_columns
               THEN <<df.columns[i],
                      [name |-> df.columns[i].name \o "_" \o LangSuffix(target_language),
                       values |-> translated_columns[df.columns[i].name]]>>
               ELSE <<df.columns[i]>>])

\* C15: in the table written by save, whatever the column names of the input,
\* every original column appears with its original values in its original
\* relative order, and each translated column appears exactly once, immediately
\* after its source column, holding that column's stored translated values.
C15_MergedLayout == saved.written => saved.columns = MergedTable

-----------------------------------------------------------------------------
(* Exit codes. *)

\* the CLI run succeeded: analyze-only finished, or the translation completed
\* and the output was saved
CliSucceeded ==
    \/ cli.analyze /\ pc = "idle" /\ df.loaded /\ progress.complete
    \/ ~cli.analyze /\ result.success /\ saved.written

\* C16: a single-file CLI run returns 130 whenever the user requested
\* cancellation during the run, 0 exactly when it succeeded, and 1 on every
\* other failure.
C16_ExitCodes ==
    cli.pc = "exit" =>
        IF cli.cancelled THEN cli.code = 130
        ELSE IF CliSucceeded THEN cli.code = 0
        ELSE cli.code = 1

\* C17: in batch-of-files mode every discovered file gets its own run attempt
\* whatever happened to the earlier files, success_count + fail_count is the
\* number of files after the loop, and the exit code is 0 if and only if no
\* file failed.
C17_BatchIsolation ==
    batch.pc = "exit" =>
        /\ Len(batch.attempts) = Len(batch.files)
        /\ batch.success_count + batch.fail_count = Len(batch.files)
        /\ batch.code = 0 <=>
               \A i \in 1..Len(batch.attempts) : batch.attempts[i] = Returned(0)

-----------------------------------------------------------------------------
(* The column-state list. *)

\* the column states are those of the first source columns, in source order,
\* with index i at position i (0-based)
ColumnsArePrefix ==
    /\ Len(columns) <= Len(df.columns)
    /\ \A i \in 1..Len(columns) :
           /\ columns[i].name = df.columns[i].name
           /\ columns[i].index = i - 1

\* C18: analyze_columns rebuilds the column-state list from scratch in source
\* column order with index i at position i: it starts from the empty list, the
\* list is at every step a prefix of the source columns, nothing is added once
\* the cancellation is seen, and when it returns without having been cancelled
\* the list has exactly one state per source column.
C18_AnalysisPrefix ==
    [][/\ ColumnsArePrefix'
       /\ (pc # "analyzing" /\ pc' = "analyzing") => columns' = <<>>
       /\ (pc = "analyzing" /\ IsCancelled(progress)) => columns' = columns
       /\ (pc = "analyzing" /\ pc' = "idle" /\ ~IsCancelled(progress))
              => Len(columns') = Len(df.columns)]_vars

\* C18 witness: an analysis of a two-column table cancelled before the second
\* column has returned the state of the first column alone
C18_Witness ==
    /\ pc = "idle"
    /\ progress.present /\ progress.cancelled /\ progress.complete
    /\ Len(df.columns) = 2
    /\ Len(columns) = 1
    /\ columns[1].name = "text" /\ columns[1].index = 0

-----------------------------------------------------------------------------
(* Committed output. *)

\* the outcomes returned for column c, in order
OutcomesOf(c) ==
    LET pos == SelectPos([i \in 1..Len(OutcomeLog) |-> OutcomeLog[i].column = c])
    IN  [k \in 1..Len(pos) |-> OutcomeLog[pos[k]]]

\* column c has units and every one of its batches has been processed
FullyProcessed(c) == UnitTexts(c) # <<>> /\ Len(OutcomesOf(c)) = Len(UnitTexts(c))

\* the complete output array of a fully processed column: per unit the
\* translation or the original text, "" elsewhere
CompleteOutput(c) ==
    LET values == ColumnValues(df, c)
        outs == OutcomesOf(c)
    IN  [r \in 1..Len(values) |->
           IF \E k \in 1..Len(outs) : outs[k].row = r - 1
           THEN LET o == outs[CHOOSE k \in 1..Len(outs) : outs[k].row = r - 1]
                IN  IF o.outcome.success /\ o.outcome.translated_text # ""
                    THEN o.outcome.translated_text ELSE o.text
           ELSE ""]

\* C19: when cancellation is observed during translate, every column whose
\* batches had all been processed remains in the translated-columns map with
\* its complete output array, and the run returns a Cancelled result, not an
\* error.
C19_CommittedOutputKept ==
    (RunEnded /\ ~Faulted /\ IsCancelled(progress)) =>
        /\ CancelledOutcome(result)
        /\ \A c \in SelectedNames :
               FullyProcessed(c) =>
                   /\ c \in DOMAIN translated_columns
                   /\ translated_columns[c] = CompleteOutput(c)

\* C19 witness: the run was cancelled after the first of two selected columns,
\* whose two units are stored, and before any unit of the second was sent
C19_Witness ==
    /\ RunEnded /\ ~Faulted /\ IsCancelled(progress)
    /\ SelectedNames = {"text", "notes"}
    /\ FullyProcessed("text")
    /\ Len(UnitTexts("text")) = 2
    /\ UnitTexts("notes") # <<>>
    /\ OutcomesOf("notes") = <<>>
    /\ translated_columns["text"] = CompleteOutput("text")
    /\ CancelledOutcome(result)

-----------------------------------------------------------------------------
(* The shape of an invocation. *)

\* the ColumnInfo of the column named c
ColumnNamed(c) == columns[CHOOSE i \in 1..Len(columns) : columns[i].name = c]

\* C20: every translate_batch invocation receives texts and source codes of
\* equal non-zero length, at most the batch size, whose i-th entries belong to
\* the same unit, the units in ascending original-row order, and one target
\* code that is the same for every invocation of the run; there is one
\* invocation per batch and no unit is sent in two invocations.
C20_InvocationShape ==
    \A j \in 1..Len(calls) :
        LET k == calls[j]
        IN  /\ Len(k.texts) = Len(k.langs)
            /\ Len(k.texts) = Len(k.rows)
            /\ Len(k.texts) >= 1
            /\ Len(k.texts) <= config.batch_size
            /\ \A i \in 1..Len(k.texts) :
                   /\ k.texts[i] = ColumnValues(df, k.column)[k.rows[i] + 1]
                   /\ k.langs[i] = SourceLang(ColumnNamed(k.column), k.engine)
                   /\ i > 1 => k.rows[i - 1] < k.rows[i]
            /\ k.target = calls[1].target
            /\ k.target = TargetLang(k.engine, target_language)
            /\ \A j2 \in 1..Len(calls) :
                   (j2 # j /\ calls[j2].column = k.column) =>
                       /\ calls[j2].batch_start # k.batch_start
                       /\ \A i \in 1..Len(k.rows) : \A i2 \in 1..Len(calls[j2].rows) :
                              k.rows[i] # calls[j2].rows[i2]

\* C20 witness: a column with a blank cell at row 1 sent in two batches, rows
\* 0 and 2 and then row 3
C20_Witness ==
    /\ RunReturned
    /\ config.batch_size = 2
    /\ Len(calls) = 2
    /\ calls[1].rows = <<0, 2>> /\ Len(calls[1].texts) = 2 /\ Len(calls[1].langs) = 2
    /\ calls[2].rows = <<3>> /\ calls[2].column = calls[1].column
    /\ calls[2].target = calls[1].target

-----------------------------------------------------------------------------
(* Interrupts in the single-file flow. *)

\* a step that passes the checkpoint before a batch, towards its invocation
PassesCheckpoint == pc = "batch" /\ pc' = "call"

\* C21: once the user's interrupt has been handled, at any point of the
\* single-file run, no batch checkpoint of translate is passed and so no
\* translate_batch invocation is started after it; an interrupt handled before
\* the translation phase begins results in zero invocations.
C21_InterruptStopsInvocations == [][cli.cancelled => ~PassesCheckpoint]_vars

-----------------------------------------------------------------------------
(* The tracker of a translate run. *)

\* a translate call handed a tracker has entered the column loop, and may have
\* returned
RunTracked ==
    /\ progress.present
    /\ pc \in {"col", "batch", "call", "flight", "finish"} \/ RunEnded

\* the translatable cells of the selected columns
SelectedUnits ==
    SeqSum([i \in 1..Len(columns) |->
              IF columns[i].selected THEN Len(UnitTexts(columns[i].name)) ELSE 0])

-----------------------------------------------------------------------------
(* Termination of a translate run. *)

\* translate has entered the column loop and has not returned
Running == pc \in {"col", "batch", "call", "flight", "finish"}

\* ceil(U / B)
CeilDiv(U, B) == (U + B - 1) \div B

\* the invocations of the run stay within ceil(U_c / B) for every selected
\* column c, and none is issued for another column
InvocationsBounded ==
    /\ \A j \in 1..Len(calls) : calls[j].column \in SelectedNames
    /\ \A c \in SelectedNames :
           Len(CallsFor(c)) <= CeilDiv(Len(UnitTexts(c)), config.batch_size)

\* the returned result is exactly one of Completed, Cancelled and Failed
TerminalOutcome ==
    CountIn(<<Completed(result), ~result.success /\ result.error = NoneStr,
              Failed(result)>>) = 1

\* C23: for every table, selection and batch size, and provided each
\* translate_batch call returns, translate terminates in one of Completed,
\* Cancelled or Failed after at most ceil(U_c / B) invocations for each selected
\* column c (no position of the loop blocks); the run does not return to
\* Running after its terminal outcome (only a new call of translate leaves the
\* returned result behind).
C23_RunTerminates ==
    /\ [](Running => ENABLED RunStep)
    /\ [](Running \/ RunEnded => InvocationsBounded)
    /\ Running ~> (RunEnded /\ TerminalOutcome)
    /\ [][RunEnded => ((pc' = "done" /\ result' = result /\ calls' = calls)
                          \/ (TranslateCalled /\ calls' = <<>>))]_vars

\* C23 witness: batch size 1 and a column of two units, done in two
\* invocations, and the run Completed
C23_Witness ==
    /\ RunEnded /\ Completed(result)
    /\ config.batch_size = 1
    /\ Len(UnitTexts("text")) = 2
    /\ Len(CallsFor("text")) = 2

-----------------------------------------------------------------------------
(* The statistics of a result. *)

\* the cells of the stored output arrays that hold a translation
CellsWritten ==
    SeqSum([i \in 1..Len(df.columns) |->
              IF df.columns[i].name \in DOMAIN translated_columns
              THEN Cardinality({ r \in 1..Len(df.columns[i].values) :
                                   /\ ~BlankCell(df.columns[i].values[r])
                                   /\ translated_columns[df.columns[i].name][r] =
                                          TranslationOf(df.columns[i].values[r]) })
              ELSE 0])

\* C24: in every result returned by a run that entered the column loop and had
\* no run-level failure, Cancelled runs included, columns_translated is the
\* number of columns whose output array was stored during the run and
\* cells_translated the number of cells written with a translation.
C24_StatisticsOfWorkDone ==
    (RunEnded /\ ~Faulted) =>
        /\ result.columns_translated = Cardinality(DOMAIN translated_columns)
        /\ result.cells_translated = CellsWritten

-----------------------------------------------------------------------------
(* Repeated translate runs on one file. *)

\* column c was translated by the run that has returned, to its target language
TranslatedByLastRun(c) ==
    \E j \in 1..Len(calls) :
        /\ calls[j].column = c
        /\ calls[j].target = TargetLang(calls[j].engine, target_language)

\* C25: after a translate run returns success the translated-columns map holds
\* exactly the columns selected in that run, each translated by that run to its
\* target language; so a save() that follows writes no column stored by an
\* earlier run that the latest run did not select, and labels no column with the
\* suffix of a target language it was not translated to.
C25_MapOfLastRun ==
    (RunEnded /\ result.success) =>
        /\ DOMAIN translated_columns = SelectedNames
        /\ \A c \in DOMAIN translated_columns : TranslatedByLastRun(c)
        /\ saved.written =>
               \A i \in 1..Len(saved.columns) :
                   \A c \in DOMAIN translated_columns :
                       saved.columns[i].name = c \o "_" \o LangSuffix(target_language)
                           => TranslatedByLastRun(c)

-----------------------------------------------------------------------------
(* Cancellation after the work is done. *)

\* every batch of every selected column was issued, its outcomes stored, and
\* every selected column stored
AllProcessed ==
    \A c \in SelectedNames :
        /\ c \in DOMAIN translated_columns
        /\ Len(OutcomesOf(c)) = Len(UnitTexts(c))

\* C26: a run in which every batch of every selected column was issued and
\* stored is reported Completed with success = true, also when cancel() was
\* invoked after the last batch; a run is reported Cancelled only if the
\* cancellation kept at least one batch or column from being processed.
C26_CancelledOnlyIfPrevented ==
    (RunEnded /\ ~Faulted /\ AllProcessed) => Completed(result)

-----------------------------------------------------------------------------
(* Cancellation across the files of a batch. *)

\* the run of a later file has returned; the run of the first file had been
\* interrupted and returned 130, and in the later run the analysis covered
\* every column and the translation ran to the end untouched by an interrupt
LaterRunUninterrupted ==
    /\ batch.pc = "loop"
    /\ cli.pc = "exit"
    /\ Len(batch.attempts) >= 1
    /\ batch.attempts[1] = Returned(130)
    /\ Len(columns) = Len(df.columns)
    /\ RunEnded
    /\ Completed(result)

\* C27: a cancellation requested while one file is processed does not leak
\* into the later runs of the same CLI instance in batch-of-files mode: a later
\* file whose analysis and translation complete with no new interrupt is saved
\* and its run returns 0, not 130.
C27_CancellationDoesNotLeak ==
    LaterRunUninterrupted => (cli.code = 0 /\ saved.written)

-----------------------------------------------------------------------------
(* The effect of set_column_selection. *)

\* the column states after the call: selected exactly for the names handed in,
\* every other field as it was
SelectionReplaced(names) ==
    /\ Len(columns') = Len(columns)
    /\ \A i \in 1..Len(columns) :
           /\ columns'[i].selected = (columns[i].name \in names)
           /\ columns'[i] = [columns[i] EXCEPT !.selected = columns'[i].selected]

\* C28: after set_column_selection(names), every analysed column is selected
\* if and only if its name is in names, whatever the selection was before;
\* names that match no column are ignored, and no column's override, detected
\* language, classification or stored translation changes.
C28_SelectionReplaces ==
    [][\A names \in SUBSET {"text", "notes", "other"} :
           SetColumnSelection(names) =>
               /\ SelectionReplaced(names)
               /\ UNCHANGED <<translated_columns, df, input_path, config,
                              target_language, requested>>]_vars

\* C28 witness: an english column, never selected automatically, is selected
\* and the foreign-text column beside it deselected, with an override and a
\* stored translation in place
C28_Witness ==
    /\ pc = "idle"
    /\ Len(columns) = 2
    /\ columns[1].column_type = "english" /\ columns[1].selected
    /\ columns[2].column_type = "foreign_text" /\ ~columns[2].selected
    /\ columns[1].override_language = "fra_Latn"
    /\ translated_columns # EmptyMap

-----------------------------------------------------------------------------
(* load_file is all-or-nothing. *)

\* the file is there, its extension is one of .csv, .xlsx and .xls, and its
\* content decodes and parses
Loadable(path, exists, content) ==
    /\ exists
    /\ path \in {"in.csv", "in.xlsx"}
    /\ content.kind = "table"

\* C29: a successful load_file replaces the table and the input path and
\* empties the column-state list and the translated-columns map; a load that
\* raises (missing file, unsupported extension, undecodable or unparsable
\* content) leaves the table, the input path, the column states and the
\* translated columns as they were.
C29_LoadAllOrNothing ==
    [][\A path \in LoadPaths : \A exists \in BOOLEAN : \A content \in LoadContents :
           LoadAttempt(path, exists, content) =>
               IF Loadable(path, exists, content)
               THEN /\ df' = [loaded |-> TRUE, columns |-> content.table]
                    /\ input_path' = path
                    /\ columns' = <<>>
                    /\ translated_columns' = EmptyMap
               ELSE UNCHANGED <<df, input_path, columns, translated_columns>>]_vars

\* C29 witness: a file loaded after a run to French on an earlier file: the
\* new table and path, no column state and no translated column
C29_Witness ==
    /\ df = [loaded |-> TRUE, columns |-> <<MakeColumn("text", 1, {0})>>]
    /\ input_path = "in.xlsx"
    /\ target_language = "fra_Latn"
    /\ columns = <<>>
    /\ translated_columns = EmptyMap
    /\ pc = "idle"

\* the download_lid_model calls (by index) whose download_file failed after
\* the file had been created
FailedPartWay(i) ==
    /\ ~setup.lid_calls[i].returned
    /\ setup.lid_calls[i].downloaded
    /\ setup.lid_calls[i].exists

\* C30: download_lid_model returns True only with the complete model file at
\* the destination, and after a download that failed part-way no later call
\* returns True without downloading again.
C30_TrueOnlyWhenComplete ==
    \A i \in 1..Len(setup.lid_calls) :
        setup.lid_calls[i].returned =>
            /\ setup.lid_calls[i].exists
            /\ setup.lid_calls[i].chunks = ModelChunks
            /\ \A j \in 1..(i - 1) :
                   FailedPartWay(j) => setup.lid_calls[i].downloaded

====
